---- MODULE Spec2Model ----
(***************************************************************************)
(* Model of the detection-and-classification engine of the secrets         *)
(* scanner (src/legacy/secrets_scanner2.py, with the allowlist matcher and *)
(* the scan loop of the older src/legacy/secrets_scanner.py).              *)
(*                                                                         *)
(* Text is modelled as sequences of one-character strings, so that the     *)
(* fingerprints, the glob-to-regex conversion of the allowlist and         *)
(* re.match are computed the way the code computes them.                   *)
(***************************************************************************)
EXTENDS Integers, Sequences, FiniteSets, TLC

VARIABLES
  lines,                   \* file path -> sequence of line kinds (file content)
  git,                     \* file path -> git status of the file
  blobs,                   \* git objects listed by rev-list: <<[path, kind]>>
  opts,                    \* constructor arguments of SecretsScanner
  allowlist,               \* AllowlistManager.allowlist: its keys, in order
  pc,                      \* position inside SecretsScanner.scan
  files_to_scan,           \* result of _collect_files_to_scan
  todo,                    \* files the current loop has still to visit
  pattern_findings,        \* scan(): pattern_findings
  detect_secrets_findings, \* scan(): detect_secrets_findings
  git_findings,            \* scan_historical_files(): findings
  file_findings,           \* scan_historical_files(): file_findings of the file in hand
  all_findings,            \* scan(): all_findings
  findings,                \* self.findings
  aborted,                 \* files whose scan_file ended in its except clause
  next_id,                 \* identity of the next Finding object
  run,                     \* number of the scan() call in progress
  prev_findings,           \* what the previous scan() call returned
  prev_allowlist,          \* the allowlist the previous scan() call used
  probe,                   \* the arguments of a method called on its own
  verdict,                 \* what that call did
  high_findings_exist,     \* main(): what print_report returned
  exit_code,               \* main(): <<status>> once sys.exit was called
  pattern_file,            \* what the file named by --pattern-file holds
  pattern_manager,         \* what PatternManager(mode, pattern_file) did
  read_error,              \* file path -> <<k>> when reading it raises after k lines
  fetch_error              \* hashes of the git objects git cat-file fails on

vars == <<lines, git, blobs, opts, allowlist, pc, files_to_scan, todo,
          pattern_findings, detect_secrets_findings, git_findings,
          file_findings, all_findings, findings, aborted, next_id, run,
          prev_findings, prev_allowlist, probe, verdict, high_findings_exist,
          exit_code, pattern_file, pattern_manager, read_error, fetch_error>>

\* the locals of main() after scanner.scan()
Main == <<high_findings_exist, exit_code>>

\* the arguments and the outcome of PatternManager.__init__
Patterns == <<pattern_file, pattern_manager>>

----------------------------------------------------------------------------
(* Text helpers *)

Last(s) == s[Len(s)]

DigitChars == <<"0", "1", "2", "3", "4", "5", "6", "7", "8", "9">>

\* str(n) for a line number, as f"{line_number}" formats it
RECURSIVE Str(_)
Str(n) == IF n < 10 THEN <<DigitChars[n + 1]>>
          ELSE Str(n \div 10) \o <<DigitChars[(n % 10) + 1]>>

\* s.replace(from, to) for a one-character from
RECURSIVE Replace(_, _, _)
Replace(s, from, to) ==
  IF s = <<>> THEN <<>>
  ELSE (IF Head(s) = from THEN to ELSE <<Head(s)>>) \o Replace(Tail(s), from, to)

\* c in s
InStr(c, s) == \E i \in 1..Len(s) : s[i] = c

\* elements of a sequence
Range(s) == {s[i] : i \in 1..Len(s)}

\* list comprehension [x for x in s if Keep(x)]
RECURSIVE SelectSeqBy(_, _)
SelectSeqBy(s, keep) ==
  IF s = <<>> THEN <<>>
  ELSE (IF Head(s) \in keep THEN <<Head(s)>> ELSE <<>>) \o SelectSeqBy(Tail(s), keep)

----------------------------------------------------------------------------
(* Python's re, for the part of the syntax an allowlist glob can reach:     *)
(* literals, '.', the quantifiers '*' and '+', and character sets.  The     *)
(* compiled form is a sequence of nodes; compilation can fail.              *)

RE_ERROR == "re.error"

\* position of the first "]" after position i, 0 if there is none
RECURSIVE CloseOfSet(_, _)
CloseOfSet(re, i) ==
  IF i > Len(re) THEN 0
  ELSE IF re[i] = "]" THEN i
  ELSE CloseOfSet(re, i + 1)

ReFailed == [err |-> TRUE, nodes |-> <<>>]

\* sre_parse: nodes are [kind, chars, q]; q is "one", "star" or "plus"
RECURSIVE ReParse(_, _, _)
ReParse(re, i, acc) ==
  IF i > Len(re) THEN [err |-> FALSE, nodes |-> acc]
  ELSE
    LET c == re[i] IN
    IF c \in {"*", "+"} THEN
      \* "nothing to repeat" / "multiple repeat"
      IF acc = <<>> \/ Last(acc).q # "one" THEN ReFailed
      ELSE ReParse(re, i + 1,
             [acc EXCEPT ![Len(acc)].q = IF c = "*" THEN "star" ELSE "plus"])
    ELSE IF c = "(" THEN
      \* no ")" follows in any pattern considered: "missing ), unterminated subpattern"
      ReFailed
    ELSE IF c = "[" THEN
      \* a "]" right after "[" is a member of the set, not its end
      LET close == CloseOfSet(re, i + 2) IN
      IF close = 0 THEN ReFailed  \* "unterminated character set"
      ELSE ReParse(re, close + 1,
             Append(acc, [kind |-> "set",
                          chars |-> {re[k] : k \in (i + 1)..(close - 1)},
                          q |-> "one"]))
    ELSE IF c = "." THEN
      ReParse(re, i + 1, Append(acc, [kind |-> "any", chars |-> {}, q |-> "one"]))
    ELSE
      ReParse(re, i + 1, Append(acc, [kind |-> "lit", chars |-> {c}, q |-> "one"]))

\* re.compile(pattern)
ReCompile(re) == ReParse(re, 1, <<>>)

NodeAccepts(node, c) == node.kind = "any" \/ c \in node.chars

\* the positions after a run of n >= least characters the node accepts, from j
RunEnds(node, s, j, least) ==
  {k \in (j + least)..(Len(s) + 1) : \A m \in j..(k - 1) : NodeAccepts(node, s[m])}

\* does nodes[k..] match s starting at position j (anywhere it ends)
RECURSIVE ReMatchFrom(_, _, _, _)
ReMatchFrom(nodes, k, s, j) ==
  IF k > Len(nodes) THEN TRUE
  ELSE
    LET node == nodes[k] IN
    IF node.q = "one" THEN
      /\ j <= Len(s)
      /\ NodeAccepts(node, s[j])
      /\ ReMatchFrom(nodes, k + 1, s, j + 1)
    ELSE
      \E e \in RunEnds(node, s, j, IF node.q = "plus" THEN 1 ELSE 0) :
        ReMatchFrom(nodes, k + 1, s, e)

\* re.match(pattern, string): "True", "False", or RE_ERROR when compiling raises
ReMatch(re, s) ==
  LET compiled == ReCompile(re) IN
  IF compiled.err THEN RE_ERROR
  ELSE IF ReMatchFrom(compiled.nodes, 1, s, 1) THEN "True" ELSE "False"

----------------------------------------------------------------------------
(* Pattern strings, specimen lines and lexicons.  A line is named by a      *)
(* specimen; LINE_TEXT gives its characters.  SEARCH_TABLE lists the        *)
(* (regex, line) pairs for which compiled.search(line) finds a match, with  *)
(* re.IGNORECASE for the scan patterns, as Python's re computes them.       *)

\* loose_patterns: r"Bearer\s+[A-Za-z0-9_-]+"
PAT_BEARER ==
  <<"B", "e", "a", "r", "e", "r", "\\", "s", "+", "[", "A", "-", "Z", "a",
    "-", "z", "0", "-", "9", "_", "-", "]", "+">>

\* additional_patterns: r"eyJ[A-Za-z0-9_-]{20,}"
PAT_JWT ==
  <<"e", "y", "J", "[", "A", "-", "Z", "a", "-", "z", "0", "-", "9", "_",
    "-", "]", "{", "2", "0", ",", "}">>

\* additional_patterns: r"password\s*=\s*[^\s]+"
PAT_PASSWORD_ASSIGN ==
  <<"p", "a", "s", "s", "w", "o", "r", "d", "\\", "s", "*", "=", "\\", "s",
    "*", "[", "^", "\\", "s", "]", "+">>

\* strict_patterns: r"password"
PAT_STRICT_PASSWORD ==
  <<"p", "a", "s", "s", "w", "o", "r", "d">>

\* strict_patterns: r"auth"
PAT_STRICT_AUTH ==
  <<"a", "u", "t", "h">>

\* strict_patterns: r"pass"
PAT_STRICT_PASS ==
  <<"p", "a", "s", "s">>

\* loose_patterns and override_patterns: r"client_secret\s*=\s*[a-zA-Z0-9._-]+"
PAT_CLIENT_SECRET ==
  <<"c", "l", "i", "e", "n", "t", "_", "s", "e", "c", "r", "e", "t", "\\",
    "s", "*", "=", "\\", "s", "*", "[", "a", "-", "z", "A", "-", "Z", "0",
    "-", "9", ".", "_", "-", "]", "+">>

\* loose_patterns: r"postgres(ql)?://[^:]+:[^@]+@[^/]+"
PAT_POSTGRES_URL ==
  <<"p", "o", "s", "t", "g", "r", "e", "s", "(", "q", "l", ")", "?", ":",
    "/", "/", "[", "^", ":", "]", "+", ":", "[", "^", "@", "]", "+", "@",
    "[", "^", "/", "]", "+">>

\* loose_patterns: r"mongodb(\+srv)?://[^:]+:[^@]+@[^/]+"
PAT_MONGODB_URL ==
  <<"m", "o", "n", "g", "o", "d", "b", "(", "\\", "+", "s", "r", "v", ")",
    "?", ":", "/", "/", "[", "^", ":", "]", "+", ":", "[", "^", "@", "]",
    "+", "@", "[", "^", "/", "]", "+">>

\* override_patterns: r"PASSWORD\s*=\s*[^\s$]+"
PAT_OVERRIDE_PASSWORD ==
  <<"P", "A", "S", "S", "W", "O", "R", "D", "\\", "s", "*", "=", "\\", "s",
    "*", "[", "^", "\\", "s", "$", "]", "+">>

\* config_patterns: r"password\s*=\s*[^\s$]+"
PAT_CONFIG_PASSWORD ==
  <<"p", "a", "s", "s", "w", "o", "r", "d", "\\", "s", "*", "=", "\\", "s",
    "*", "[", "^", "\\", "s", "$", "]", "+">>

\* config_patterns: r"key\s*=\s*[^\s$]+"
PAT_CONFIG_KEY ==
  <<"k", "e", "y", "\\", "s", "*", "=", "\\", "s", "*", "[", "^", "\\", "s",
    "$", "]", "+">>

\* config_patterns: r"user\s*=\s*[^\s$]+"
PAT_CONFIG_USER ==
  <<"u", "s", "e", "r", "\\", "s", "*", "=", "\\", "s", "*", "[", "^", "\\",
    "s", "$", "]", "+">>

\* r'(=|:)\s*["\'][0-9a-zA-Z._=/-]{16,}["\']'
RE_QUOTED_VALUE ==
  <<"(", "=", "|", ":", ")", "\\", "s", "*", "[", "\"", "\\", "'", "]", "[",
    "0", "-", "9", "a", "-", "z", "A", "-", "Z", ".", "_", "=", "/", "-",
    "]", "{", "1", "6", ",", "}", "[", "\"", "\\", "'", "]">>

\* r'(password|pass|pwd)\s*='
RE_PASSWORD_EQ ==
  <<"(", "p", "a", "s", "s", "w", "o", "r", "d", "|", "p", "a", "s", "s",
    "|", "p", "w", "d", ")", "\\", "s", "*", "=">>

\* the specimen lines, without their line terminator
LINE_TEXT ==
  [L_BEARER |->
      <<"a", "u", "t", "h", ":", " ", "B", "e", "a", "r", "e", "r", " ", "a",
        "b", "c", "d", "e", "f", "g", "h", "1", "2">>,
   L_JWT |->
      <<"a", "u", "t", "h", ":", " ", "\"", "e", "y", "J", "h", "b", "G",
        "c", "i", "O", "i", "J", "I", "U", "z", "I", "1", "N", "i", "I", "s",
        "I", "n", "R", "5", "c", "C", "I", "6", "\"">>,
   L_PASSWORD |->
      <<"p", "a", "s", "s", "w", "o", "r", "d", " ", "=", " ", "\"", "S",
        "3", "c", "r", "3", "t", "V", "a", "l", "u", "e", "1", "2", "3",
        "\"">>,
   L_COMMENT |->
      <<"#", " ", "p", "a", "s", "s", "w", "o", "r", "d", " ", "=", " ",
        "\"", "S", "3", "c", "r", "3", "t", "V", "a", "l", "u", "e", "1",
        "2", "3", "\"">>,
   L_USER |->
      <<"u", "s", "e", "r", " ", "=", " ", "B", "e", "a", "r", "e", "r", " ",
        "a", "b", "c", "d", "e", "f", "g", "h">>,
   L_EXAMPLE |->
      <<"a", "w", "s", "_", "k", "e", "y", " ", "=", " ", "\"", "A", "K",
        "I", "A", "I", "O", "S", "F", "O", "D", "N", "N", "7", "E", "X", "A",
        "M", "P", "L", "E", "\"">>,
   L_LOG |->
      <<"c", "o", "n", "s", "o", "l", "e", ".", "l", "o", "g", "(", "\"",
        "t", "o", "k", "e", "n", ":", "\"", ",", " ", "t", "o", "k", "e",
        "n", ")">>,
   L_LOG_QUOTED |->
      <<"p", "r", "i", "n", "t", "(", "a", "p", "i", "_", "k", "e", "y", ":",
        " ", "\"", "a", "b", "c", "d", "e", "f", "g", "h", "i", "j", "k",
        "l", "m", "n", "o", "p", "1", "2", "3", "4", "\"", ")">>,
   L_DB_QUOTED |->
      <<"m", "y", "s", "q", "l", "_", "p", "w", "d", ":", " ", "\"", "a",
        "b", "c", "d", "e", "f", "g", "h", "i", "j", "k", "l", "m", "n", "o",
        "p", "1", "2", "3", "4", "\"">>,
   L_DB |->
      <<"m", "o", "n", "g", "o", "_", "p", "a", "s", "s", ":", " ", "h", "u",
        "n", "t", "e", "r", "2">>,
   L_PWD_SPECIAL |->
      <<"p", "w", "d", " ", "=", " ", "$", "H", "O", "M", "E", "!">>,
   L_CLIENT |->
      <<"c", "l", "i", "e", "n", "t", "_", "i", "d", ":", " ", "a", "b", "c">>,
   L_KEY |->
      <<"k", "e", "y", " ", "=", " ", "$", "V">>,
   L_CLIENT_SECRET |->
      <<"c", "l", "i", "e", "n", "t", "_", "s", "e", "c", "r", "e", "t", " ",
        "=", " ", "a", "b", "c">>,
   L_CLIENT_QUOTED |->
      <<"c", "l", "i", "e", "n", "t", "_", "i", "d", ":", " ", "\"", "a",
        "b", "c", "d", "e", "f", "g", "h", "i", "j", "k", "l", "m", "n", "o",
        "p", "1", "2", "3", "4", "\"">>,
   L_RESPONSE |->
      <<"r", "e", "t", "u", "r", "n", " ", "t", "o", "k", "e", "n">>,
   L_SECTION |->
      <<"[", "s", "e", "c", "r", "e", "t", "s", "]">>,
   L_LOG_RESPONSE |->
      <<"p", "r", "i", "n", "t", "(", "r", "e", "s", "p", "o", "n", "s", "e",
        ".", "t", "o", "k", "e", "n", ")">>,
   L_RESPONSE_INDEX |->
      <<"r", "e", "t", "u", "r", "n", " ", "t", "o", "k", "e", "n", "s", "[",
        "0", "]">>,
   L_REVERSED |->
      <<"k", "e", "y", "s", "]", " ", "=", " ", "t", "o", "k", "e", "n", "[">>,
   L_POSTGRES_URL |->
      <<"d", "b", ":", " ", "p", "o", "s", "t", "g", "r", "e", "s", ":", "/",
        "/", "a", "d", "m", "i", "n", ":", "h", "u", "n", "t", "e", "r", "2",
        "@", "d", "b", ".", "i", "n", "t", "e", "r", "n", "a", "l", "/", "a",
        "p", "p">>,
   L_MONGO_URL |->
      <<"u", "r", "i", ":", " ", "m", "o", "n", "g", "o", "d", "b", ":", "/",
        "/", "a", "d", "m", "i", "n", ":", "h", "u", "n", "t", "e", "r", "2",
        "@", "d", "b", ".", "i", "n", "t", "e", "r", "n", "a", "l", "/", "a",
        "p", "p">>]

SEARCH_TABLE ==
  {<<PAT_BEARER, "L_BEARER">>,
   <<PAT_BEARER, "L_USER">>,
   <<PAT_JWT, "L_JWT">>,
   <<PAT_PASSWORD_ASSIGN, "L_PASSWORD">>,
   <<PAT_PASSWORD_ASSIGN, "L_COMMENT">>,
   <<PAT_STRICT_PASSWORD, "L_PASSWORD">>,
   <<PAT_STRICT_PASSWORD, "L_COMMENT">>,
   <<PAT_STRICT_AUTH, "L_BEARER">>,
   <<PAT_STRICT_AUTH, "L_JWT">>,
   <<PAT_STRICT_PASS, "L_PASSWORD">>,
   <<PAT_STRICT_PASS, "L_COMMENT">>,
   <<PAT_OVERRIDE_PASSWORD, "L_PASSWORD">>,
   <<PAT_OVERRIDE_PASSWORD, "L_COMMENT">>,
   <<PAT_CONFIG_PASSWORD, "L_PASSWORD">>,
   <<PAT_CONFIG_PASSWORD, "L_COMMENT">>,
   <<PAT_CONFIG_KEY, "L_EXAMPLE">>,
   <<PAT_CONFIG_USER, "L_USER">>,
   <<RE_QUOTED_VALUE, "L_JWT">>,
   <<RE_QUOTED_VALUE, "L_EXAMPLE">>,
   <<RE_PASSWORD_EQ, "L_PASSWORD">>,
   <<RE_PASSWORD_EQ, "L_COMMENT">>,
   <<PAT_STRICT_PASS, "L_DB">>,
   <<RE_QUOTED_VALUE, "L_LOG_QUOTED">>,
   <<RE_QUOTED_VALUE, "L_DB_QUOTED">>,
   <<RE_PASSWORD_EQ, "L_PWD_SPECIAL">>,
   <<PAT_CLIENT_SECRET, "L_CLIENT_SECRET">>,
   <<RE_QUOTED_VALUE, "L_CLIENT_QUOTED">>,
   <<PAT_POSTGRES_URL, "L_POSTGRES_URL">>,
   <<PAT_MONGODB_URL, "L_MONGO_URL">>}

\* ["console.", "print", "echo", "log."]
LOGGING_TERMS ==
  <<<<"c", "o", "n", "s", "o", "l", "e", ".">>,
    <<"p", "r", "i", "n", "t">>,
    <<"e", "c", "h", "o">>,
    <<"l", "o", "g", ".">>>>

\* ["return", "res.", "response"]
RESPONSE_TERMS ==
  <<<<"r", "e", "t", "u", "r", "n">>,
    <<"r", "e", "s", ".">>,
    <<"r", "e", "s", "p", "o", "n", "s", "e">>>>

\* sensitive_terms
SENSITIVE_TERMS ==
  <<<<"c", "l", "i", "e", "n", "t", "_", "i", "d">>,
    <<"c", "l", "i", "e", "n", "t", "_", "s", "e", "c", "r", "e", "t">>,
    <<"a", "p", "i", "_", "k", "e", "y">>,
    <<"p", "a", "s", "s", "w", "o", "r", "d">>,
    <<"t", "o", "k", "e", "n">>,
    <<"a", "c", "c", "e", "s", "s", "_", "k", "e", "y">>,
    <<"D", "A", "T", "A", "B", "A", "S", "E", "_", "U", "R", "L">>,
    <<"P", "O", "S", "T", "G", "R", "E", "S", "_", "P", "A", "S", "S", "W",
      "O", "R", "D">>,
    <<"s", "e", "c", "r", "e", "t">>,
    <<"k", "e", "y">>,
    <<"a", "u", "t", "h">>,
    <<"c", "r", "e", "d", "e", "n", "t", "i", "a", "l">>>>

\* ["pass", "secret", "token", "api", "cred"]
SECRET_TERMS ==
  <<<<"p", "a", "s", "s">>,
    <<"s", "e", "c", "r", "e", "t">>,
    <<"t", "o", "k", "e", "n">>,
    <<"a", "p", "i">>,
    <<"c", "r", "e", "d">>>>

\* ["postgres", "sql", "mysql", "mongo"]
DB_TERMS ==
  <<<<"p", "o", "s", "t", "g", "r", "e", "s">>,
    <<"s", "q", "l">>,
    <<"m", "y", "s", "q", "l">>,
    <<"m", "o", "n", "g", "o">>>>

\* ["password", "pass", "pwd"]
PASSWORD_TERMS ==
  <<<<"p", "a", "s", "s", "w", "o", "r", "d">>,
    <<"p", "a", "s", "s">>,
    <<"p", "w", "d">>>>

\* ['!', '@', '#', '$', '%', '^', '&', '*']
SPECIAL_CHARS ==
  <<<<"!">>,
    <<"@">>,
    <<"#">>,
    <<"$">>,
    <<"%">>,
    <<"^">>,
    <<"&">>,
    <<"*">>>>

\* "client_id", "client_secret"
CLIENT_TERMS ==
  <<<<"c", "l", "i", "e", "n", "t", "_", "i", "d">>,
    <<"c", "l", "i", "e", "n", "t", "_", "s", "e", "c", "r", "e", "t">>>>

\* ["test", "example", "sample", "mock"]
DETECT_LOWER_TERMS ==
  <<<<"t", "e", "s", "t">>,
    <<"e", "x", "a", "m", "p", "l", "e">>,
    <<"s", "a", "m", "p", "l", "e">>,
    <<"m", "o", "c", "k">>>>

\* r"example|sample|mock|dummy|test|placeholder|template|default"
EXCLUSION_WORDS ==
  <<<<"e", "x", "a", "m", "p", "l", "e">>,
    <<"s", "a", "m", "p", "l", "e">>,
    <<"m", "o", "c", "k">>,
    <<"d", "u", "m", "m", "y">>,
    <<"t", "e", "s", "t">>,
    <<"p", "l", "a", "c", "e", "h", "o", "l", "d", "e", "r">>,
    <<"t", "e", "m", "p", "l", "a", "t", "e">>,
    <<"d", "e", "f", "a", "u", "l", "t">>>>

\* r"\s*//|\s*#"
EXCLUSION_COMMENT ==
  <<<<"/", "/">>,
    <<"#">>>>

\* r"TODO|FIXME"
EXCLUSION_TODO ==
  <<<<"T", "O", "D", "O">>,
    <<"F", "I", "X", "M", "E">>>>

PATH_A ==
  <<"a", ".", "p", "y">>

PATH_C ==
  <<"c", ".", "e", "n", "v">>

GIT_BLOB_PREFIX ==
  <<"[", "G", "i", "t", " ", "b", "l", "o", "b", "]", " ">>

DETECT_SECRETS_PREFIX ==
  <<"d", "e", "t", "e", "c", "t", "-", "s", "e", "c", "r", "e", "t", "s",
    ":">>


----------------------------------------------------------------------------
(* Finding *)

HIGH == "HIGH"
MEDIUM == "MEDIUM"
LOW == "LOW"
Severity == {HIGH, MEDIUM, LOW}

RiskType == {"HARDCODED_SECRET", "DATA_EXPOSURE_LOGS", "DATA_EXPOSURE_RESPONSE",
             "SENSITIVE_CONFIG"}

\* Finding.fingerprint = f"{file_path}:{line_number}"
Fingerprint(file_path, line_number) == file_path \o <<":">> \o Str(line_number)

\* Finding.full_fingerprint = f"{file_path}:{line_number}:{pattern}"
FullFingerprint(file_path, line_number, pattern) ==
  file_path \o <<":">> \o Str(line_number) \o <<":">> \o pattern

\* Finding.__init__; id stands for the identity of the Python object
Finding(id, file_path, line_number, line_content, pattern, severity, risk_type, description, is_gitignored, in_git_history, is_still_tracked) ==
  [id |-> id,
   file_path |-> file_path,
   line_number |-> line_number,
   line_content |-> line_content,
   pattern |-> pattern,
   severity |-> severity,
   risk_type |-> risk_type,
   description |-> description,
   is_gitignored |-> is_gitignored,
   in_git_history |-> in_git_history,
   is_still_tracked |-> is_still_tracked,
   fingerprint |-> Fingerprint(file_path, line_number),
   full_fingerprint |-> FullFingerprint(file_path, line_number, pattern)]

----------------------------------------------------------------------------
(* AllowlistManager.is_allowlisted and the older _is_acceptable_finding *)

\* the loop over self.allowlist.items(): first glob that matches returns True;
\* a glob whose regex does not compile raises out of the loop
RECURSIVE GlobLoop(_, _, _)
GlobLoop(entries, i, finding) ==
  IF i > Len(entries) THEN "False"
  ELSE IF ~InStr("*", entries[i]) THEN GlobLoop(entries, i + 1, finding)
  ELSE
    LET regex_pattern == Replace(entries[i], "*", <<".", "*">>)
        m1 == ReMatch(regex_pattern, finding.fingerprint)
        m2 == ReMatch(regex_pattern, finding.full_fingerprint)
    IN IF m1 = RE_ERROR THEN RE_ERROR
       ELSE IF m1 = "True" \/ m2 = "True" THEN "True"
       ELSE GlobLoop(entries, i + 1, finding)

\* a matcher that lets through exactly the Findings whose fingerprint is an
\* entry, and suppresses the others
IsAllowlistedInverted(entries, finding) ==
  IF finding.fingerprint \in Range(entries) THEN "False" ELSE "True"

\* a matcher for which an allowlist without entries covers every Finding
IsAllowlistedCoveringAllWhenEmpty(entries, finding) ==
  IF entries = <<>> THEN "True"
  ELSE IF finding.fingerprint \in Range(entries) THEN "True"
  ELSE IF finding.full_fingerprint \in Range(entries) THEN "True"
  ELSE GlobLoop(entries, 1, finding)

\* is_allowlisted(finding): "True", "False", or RE_ERROR when re.match raises
IsAllowlisted(entries, finding) ==
  IF finding.fingerprint \in Range(entries) THEN "True"
  ELSE IF finding.full_fingerprint \in Range(entries) THEN "True"
  ELSE GlobLoop(entries, 1, finding)

\* _is_acceptable_finding(finding) of the older scanner
RECURSIVE IsAcceptableFrom(_, _, _)
IsAcceptableFrom(acceptable_findings, i, finding) ==
  IF i > Len(acceptable_findings) THEN "False"
  ELSE
    LET acceptable == acceptable_findings[i] IN
    IF finding.full_fingerprint = acceptable THEN "True"
    ELSE IF InStr("*", acceptable) THEN
      LET m == ReMatch(Replace(acceptable, "*", <<".", "*">>), finding.full_fingerprint)
      IN IF m = "False" THEN IsAcceptableFrom(acceptable_findings, i + 1, finding)
         ELSE m
    ELSE IsAcceptableFrom(acceptable_findings, i + 1, finding)

IsAcceptableFinding(acceptable_findings, finding) ==
  IsAcceptableFrom(acceptable_findings, 1, finding)

----------------------------------------------------------------------------
(* PatternManager *)

Paths == {PATH_A, PATH_C}

Lines == DOMAIN LINE_TEXT

UPPER_CHARS == <<"A", "B", "C", "D", "E", "F", "G", "H", "I", "J", "K", "L", "M",
                 "N", "O", "P", "Q", "R", "S", "T", "U", "V", "W", "X", "Y", "Z">>
LOWER_CHARS == <<"a", "b", "c", "d", "e", "f", "g", "h", "i", "j", "k", "l", "m",
                 "n", "o", "p", "q", "r", "s", "t", "u", "v", "w", "x", "y", "z">>

\* str.lower()
Lower(s) ==
  [i \in 1..Len(s) |->
     IF \E k \in 1..26 : UPPER_CHARS[k] = s[i]
     THEN LOWER_CHARS[CHOOSE k \in 1..26 : UPPER_CHARS[k] = s[i]]
     ELSE s[i]]

\* term in s
IsSubstr(term, s) ==
  \E i \in 0..(Len(s) - Len(term)) : SubSeq(s, i + 1, i + Len(term)) = term

\* any(term in s for term in terms)
AnyIn(terms, s) == \E k \in 1..Len(terms) : IsSubstr(terms[k], s)

\* fnmatch.fnmatch(name, glob) for globs made of literals and "*"
RECURSIVE FnMatch(_, _)
FnMatch(name, glob) ==
  IF glob = <<>> THEN name = <<>>
  ELSE IF Head(glob) = "*" THEN
    \E k \in 0..Len(name) : FnMatch(SubSeq(name, k + 1, Len(name)), Tail(glob))
  ELSE /\ name # <<>>
       /\ Head(name) = Head(glob)
       /\ FnMatch(Tail(name), Tail(glob))

\* index of the last occurrence of c in s, 0 if none
LastIndexOf(c, s) ==
  IF InStr(c, s) THEN CHOOSE i \in 1..Len(s) : s[i] = c /\ \A k \in (i + 1)..Len(s) : s[k] # c
  ELSE 0

\* os.path.basename(path)
Basename(path) == SubSeq(path, LastIndexOf("/", path) + 1, Len(path))

\* os.path.splitext(path)[1]: from the last dot of the basename, unless that
\* dot leads the basename
SplitExt(path) ==
  LET name == Basename(path)
      dot == LastIndexOf(".", name)
  IN IF dot <= 1 THEN <<>> ELSE SubSeq(name, dot, Len(name))

\* the literal list in is_config_file
CONFIG_EXTENSIONS ==
  {<<".", "i", "n", "i">>, <<".", "c", "o", "n", "f">>, <<".", "e", "n", "v">>,
   <<".", "c", "f", "g">>, <<".", "y", "a", "m", "l">>, <<".", "y", "m", "l">>,
   <<".", "p", "r", "o", "p", "e", "r", "t", "i", "e", "s">>,
   <<".", "t", "f", "v", "a", "r", "s">>}

\* self.extensions (those the modelled paths can meet)
EXTENSIONS ==
  <<<<"*", ".", "e", "n", "v">>, <<"*", ".", "p", "y">>,
    <<"*", ".", "j", "s", "o", "n">>, <<"*", ".", "y", "m", "l">>>>

\* self.config_files
CONFIG_FILES ==
  <<<<".", "e", "n", "v">>, <<"*", ".", "e", "n", "v">>,
    <<"*", ".", "i", "n", "i">>, <<"c", "o", "n", "f", "i", "g", ".", "*">>>>

\* self.exclude_dirs
EXCLUDE_DIRS ==
  <<<<"*", "*", "/", ".", "g", "i", "t", "/", "*", "*">>,
    <<"*", "*", "/", "v", "e", "n", "v", "/", "*", "*">>>>

\* PatternManager.__init__ with the default patterns: _load_default_patterns
\* then _compile_patterns (every modelled pattern compiles)
PatternManager(mode) ==
  [mode |-> mode,
   compiled_patterns |->
     IF mode = "strict"
     THEN <<PAT_STRICT_PASSWORD, PAT_STRICT_AUTH, PAT_STRICT_PASS>>
     ELSE <<PAT_BEARER, PAT_CLIENT_SECRET, PAT_POSTGRES_URL, PAT_MONGODB_URL>>
          \o <<PAT_JWT, PAT_PASSWORD_ASSIGN>>,
   compiled_overrides |-> <<PAT_CLIENT_SECRET, PAT_OVERRIDE_PASSWORD>>,
   compiled_config_patterns |->
     <<PAT_CONFIG_PASSWORD, PAT_CONFIG_KEY, PAT_CONFIG_USER>>,
   compiled_exclusions |-> <<EXCLUSION_WORDS, EXCLUSION_COMMENT, EXCLUSION_TODO>>,
   extensions |-> EXTENSIONS,
   config_files |-> CONFIG_FILES,
   exclude_dirs |-> EXCLUDE_DIRS]

\* compiled_pattern.search(line)
Search(pattern, line) == <<pattern, line>> \in SEARCH_TABLE

\* what the substring tests of the scanner see in a line: raw is the line,
\* low is line.lower()
FactsOf(raw, low) ==
  [logging |-> AnyIn(LOGGING_TERMS, low),
   response |-> AnyIn(RESPONSE_TERMS, low),
   brackets |-> InStr("[", raw) /\ InStr("]", raw),
   equals |-> InStr("=", raw),
   sensitive |-> \E k \in 1..Len(SENSITIVE_TERMS) :
                   IsSubstr(Lower(SENSITIVE_TERMS[k]), low),
   secret |-> AnyIn(SECRET_TERMS, low),
   db |-> AnyIn(DB_TERMS, low),
   password |-> AnyIn(PASSWORD_TERMS, low),
   special |-> AnyIn(SPECIAL_CHARS, raw),
   client |-> AnyIn(CLIENT_TERMS, low),
   detect_lower |-> AnyIn(DETECT_LOWER_TERMS, low),
   \* the exclusion regexes are alternations of literals, searched with
   \* re.IGNORECASE: the set of those that find a match
   exclusions |-> {x \in {EXCLUSION_WORDS, EXCLUSION_COMMENT, EXCLUSION_TODO} :
                     \E k \in 1..Len(x) : IsSubstr(Lower(x[k]), low)}]

\* the same, once for each specimen line
LINE_FACTS == [l \in Lines |-> FactsOf(LINE_TEXT[l], Lower(LINE_TEXT[l]))]

\* PatternManager.should_exclude_line
ShouldExcludeLine(pm, line) ==
  \E k \in 1..Len(pm.compiled_exclusions) :
    pm.compiled_exclusions[k] \in LINE_FACTS[line].exclusions

\* what the path tests of PatternManager see in each path of the tree (the
\* exclude_dirs, extensions and config_files are the same in both modes)
PATH_FACTS ==
  [p \in Paths |->
     [excluded_dir |-> \E k \in 1..Len(EXCLUDE_DIRS) : FnMatch(p, EXCLUDE_DIRS[k]),
      extension |-> \E k \in 1..Len(EXTENSIONS) : FnMatch(Basename(p), EXTENSIONS[k]),
      config_extension |-> Lower(SplitExt(p)) \in CONFIG_EXTENSIONS,
      config_file |-> \E k \in 1..Len(CONFIG_FILES) :
                        FnMatch(Basename(p), CONFIG_FILES[k])]]

\* PatternManager.should_scan_file
ShouldScanFile(pm, file_path) ==
  /\ ~PATH_FACTS[file_path].excluded_dir
  /\ PATH_FACTS[file_path].extension

\* PatternManager.is_config_file
IsConfigFile(pm, file_path) ==
  \/ PATH_FACTS[file_path].config_extension
  \/ PATH_FACTS[file_path].config_file

----------------------------------------------------------------------------
(* Classifier *)

\* a risk type that does not look for logging calls
RiskTypeIgnoringLogs(f) ==
  IF f.response THEN "DATA_EXPOSURE_RESPONSE"
  ELSE IF f.brackets THEN "SENSITIVE_CONFIG"
  ELSE "HARDCODED_SECRET"

\* a risk type that looks at the brackets before the response terms
RiskTypeBracketsFirst(f) ==
  IF f.logging THEN "DATA_EXPOSURE_LOGS"
  ELSE IF f.brackets THEN "SENSITIVE_CONFIG"
  ELSE IF f.response THEN "DATA_EXPOSURE_RESPONSE"
  ELSE "HARDCODED_SECRET"

\* the chain of tests of _determine_risk_type, on the facts of the line
RiskTypeOf(f) ==
  IF f.logging THEN "DATA_EXPOSURE_LOGS"
  ELSE IF f.response THEN "DATA_EXPOSURE_RESPONSE"
  ELSE IF f.brackets THEN "SENSITIVE_CONFIG"
  ELSE "HARDCODED_SECRET"

\* SecretsScanner._determine_risk_type
DetermineRiskType(line) == RiskTypeOf(LINE_FACTS[line])

\* the rules with the MEDIUM rule after the HIGH rules
SeverityMediumLast(pm, file_path, line_content, f) ==
  IF \E k \in 1..Len(pm.compiled_overrides) :
       Search(pm.compiled_overrides[k], line_content)
    THEN HIGH
  ELSE IF IsConfigFile(pm, file_path) /\ f.sensitive /\ f.equals THEN HIGH
  ELSE IF f.logging /\ f.secret THEN HIGH
  ELSE IF f.db /\ f.password THEN HIGH
  ELSE IF Search(RE_PASSWORD_EQ, line_content) /\ f.special THEN HIGH
  ELSE IF f.client THEN HIGH
  ELSE IF Search(RE_QUOTED_VALUE, line_content) THEN MEDIUM
  ELSE LOW

\* the rules without the configuration-file rule
SeverityWithoutConfigRule(pm, file_path, line_content, f) ==
  IF \E k \in 1..Len(pm.compiled_overrides) :
       Search(pm.compiled_overrides[k], line_content)
    THEN HIGH
  ELSE IF f.logging /\ f.secret THEN HIGH
  ELSE IF Search(RE_QUOTED_VALUE, line_content) THEN MEDIUM
  ELSE IF f.db /\ f.password THEN HIGH
  ELSE IF Search(RE_PASSWORD_EQ, line_content) /\ f.special THEN HIGH
  ELSE IF f.client THEN HIGH
  ELSE LOW

\* the rules after the override rule only
SeverityWithoutOverride(pm, file_path, line_content, f) ==
  IF IsConfigFile(pm, file_path) /\ f.sensitive /\ f.equals THEN HIGH
  ELSE IF f.logging /\ f.secret THEN HIGH
  ELSE IF Search(RE_QUOTED_VALUE, line_content) THEN MEDIUM
  ELSE IF f.db /\ f.password THEN HIGH
  ELSE IF Search(RE_PASSWORD_EQ, line_content) /\ f.special THEN HIGH
  ELSE IF f.client THEN HIGH
  ELSE LOW

\* the rules of _determine_severity_and_risk, first match wins; f are the
\* facts of the line
SeverityOf(pm, file_path, line_content, f) ==
  IF \E k \in 1..Len(pm.compiled_overrides) :
       Search(pm.compiled_overrides[k], line_content)
    THEN HIGH
  ELSE IF IsConfigFile(pm, file_path) /\ f.sensitive /\ f.equals
    THEN HIGH
  ELSE IF f.logging /\ f.secret
    THEN HIGH
  ELSE IF Search(RE_QUOTED_VALUE, line_content)
    THEN MEDIUM
  ELSE IF f.db /\ f.password
    THEN HIGH
  ELSE IF Search(RE_PASSWORD_EQ, line_content) /\ f.special
    THEN HIGH
  ELSE IF f.client
    THEN HIGH
  ELSE LOW

\* a classifier that looks at what the scan has found so far
ClassifierReadingScanState(pm, file_path, line_content, matching_pattern) ==
  <<IF pattern_findings = <<>> THEN HIGH ELSE LOW, DetermineRiskType(line_content)>>

\* SecretsScanner._determine_severity_and_risk: <<severity, risk_type>>
DetermineSeverityAndRisk(pm, file_path, line_content, matching_pattern) ==
  <<SeverityOf(pm, file_path, line_content, LINE_FACTS[line_content]),
    DetermineRiskType(line_content)>>

----------------------------------------------------------------------------
(* SecretsScanner.scan_file *)

\* [pattern for compiled_pattern, pattern in patterns if compiled_pattern.search(line)]
RECURSIVE Firing(_, _)
Firing(patterns, line) ==
  IF patterns = <<>> THEN <<>>
  ELSE (IF Search(Head(patterns), line) THEN <<Head(patterns)>> ELSE <<>>)
       \o Firing(Tail(patterns), line)

Tagged(patterns, i, line, group) ==
  [k \in 1..Len(patterns) |->
     [line_number |-> i, line |-> line, pattern |-> patterns[k], group |-> group]]

\* the matches of one line, in the order scan_file meets them: override
\* patterns, regular patterns, then config patterns for a config file
LineCandidates(pm, file_path, i, line) ==
  IF ShouldExcludeLine(pm, line) THEN <<>>
  ELSE Tagged(Firing(pm.compiled_overrides, line), i, line, "override")
       \o Tagged(Firing(pm.compiled_patterns, line), i, line, "regular")
       \o (IF IsConfigFile(pm, file_path)
           THEN Tagged(Firing(pm.compiled_config_patterns, line), i, line, "config")
           ELSE <<>>)

\* enumerate(f, 1) over the lines of the file
RECURSIVE FileCandidates(_, _, _, _)
FileCandidates(pm, file_path, content, i) ==
  IF i > Len(content) THEN <<>>
  ELSE LineCandidates(pm, file_path, i, content[i])
       \o FileCandidates(pm, file_path, content, i + 1)

\* the Finding scan_file builds for a match
CandidateFinding(pm, file_path, c, id) ==
  LET sr == IF c.group = "config" THEN <<HIGH, "SENSITIVE_CONFIG">>
            ELSE DetermineSeverityAndRisk(pm, file_path, c.line, c.pattern)
      description == IF c.group = "override" THEN <<"Override pattern">>
                     ELSE IF c.group = "config" THEN <<"Sensitive config pattern">>
                     ELSE <<>>
  IN Finding(id, file_path, c.line_number, c.line, c.pattern, sr[1], sr[2],
             description, FALSE, FALSE, FALSE)

\* the allowlist gate alone, without the high-only gate
RECURSIVE GateCandidatesAnySeverity(_, _, _, _, _, _, _, _)
GateCandidatesAnySeverity(pm, entries, high_only, file_path, cands, k, first_id, acc) ==
  IF k > Len(cands) THEN [findings |-> acc, raised |-> FALSE]
  ELSE
    LET finding == CandidateFinding(pm, file_path, cands[k], first_id + k - 1)
        allowed == IsAllowlisted(entries, finding)
    IN IF allowed = RE_ERROR THEN [findings |-> acc, raised |-> TRUE]
       ELSE IF allowed = "True"
         THEN GateCandidatesAnySeverity(pm, entries, high_only, file_path, cands, k + 1,
                                        first_id, acc)
       ELSE GateCandidatesAnySeverity(pm, entries, high_only, file_path, cands, k + 1,
                                      first_id, Append(acc, finding))

\* the allowlist gate and the high-only gate, match after match; an exception
\* out of is_allowlisted ends the file in the except clause of scan_file
RECURSIVE GateCandidates(_, _, _, _, _, _, _, _)
GateCandidates(pm, entries, high_only, file_path, cands, k, first_id, acc) ==
  IF k > Len(cands) THEN [findings |-> acc, raised |-> FALSE]
  ELSE
    LET finding == CandidateFinding(pm, file_path, cands[k], first_id + k - 1)
        allowed == IsAllowlisted(entries, finding)
    IN IF allowed = RE_ERROR THEN [findings |-> acc, raised |-> TRUE]
       ELSE IF allowed = "True"
         THEN GateCandidates(pm, entries, high_only, file_path, cands, k + 1, first_id, acc)
       ELSE IF high_only /\ finding.severity # HIGH
         THEN GateCandidates(pm, entries, high_only, file_path, cands, k + 1, first_id, acc)
       ELSE GateCandidates(pm, entries, high_only, file_path, cands, k + 1, first_id,
                           Append(acc, finding))

\* scan_file(file_path): the findings, and whether the except clause ran
ScanFile(pm, entries, high_only, file_path, content, first_id) ==
  GateCandidates(pm, entries, high_only, file_path,
                 FileCandidates(pm, file_path, content, 1), 1, first_id, <<>>)

\* number of Finding objects one scan_file call can construct
CandidateCount(pm, file_path, content) == Len(FileCandidates(pm, file_path, content, 1))

----------------------------------------------------------------------------
(* The external detector (detect-secrets) *)

SECRET_KEYWORD ==
  <<"S", "e", "c", "r", "e", "t", " ", "K", "e", "y", "w", "o", "r", "d">>

AWS_ACCESS_KEY ==
  <<"A", "W", "S", " ", "A", "c", "c", "e", "s", "s", " ", "K", "e", "y">>

\* secrets[filename]: what the library's plugins report for a line, <<>> for
\* nothing (KeywordDetector on the password assignments, AWSKeyDetector on
\* the AKIA key); it reads the file itself and knows no exclusion pattern
SecretTypeOf(line) ==
  IF line \in {"L_PASSWORD", "L_COMMENT"} THEN SECRET_KEYWORD
  ELSE IF line = "L_EXAMPLE" THEN AWS_ACCESS_KEY
  ELSE <<>>

\* the body of the loop over the secrets of one file, line after line
RECURSIVE DetectInFile(_, _, _, _, _, _, _, _)
DetectInFile(pm, entries, high_only, is_gitignored, filename, content, i, first_id) ==
  IF i > Len(content) THEN <<>>
  ELSE
    LET line_content == content[i]
        secret_type == SecretTypeOf(line_content)
        severity == IF LINE_FACTS[line_content].detect_lower THEN MEDIUM ELSE HIGH
        finding == Finding(first_id + i - 1, filename, i, line_content,
                           DETECT_SECRETS_PREFIX \o secret_type, severity,
                           DetermineRiskType(line_content),
                           <<"Secret detected by detect-secrets">>,
                           is_gitignored, FALSE, FALSE)
        rest == DetectInFile(pm, entries, high_only, is_gitignored, filename,
                             content, i + 1, first_id)
    IN IF secret_type = <<>> THEN rest
       \* an exception out of is_allowlisted is caught per secret
       ELSE IF IsAllowlisted(entries, finding) # "False" THEN rest
       ELSE IF high_only /\ severity # HIGH THEN rest
       ELSE <<finding>> \o rest

\* SecretsScanner._run_detect_secrets_scan(files_to_scan)
RECURSIVE RunDetectSecretsScan(_, _, _, _, _, _, _)
RunDetectSecretsScan(pm, entries, high_only, files, content_of, ignored_of, first_id) ==
  IF files = <<>> THEN <<>>
  ELSE
    LET filename == Head(files) IN
    DetectInFile(pm, entries, high_only, ignored_of[filename], filename,
                 content_of[filename], 1, first_id)
    \o RunDetectSecretsScan(pm, entries, high_only, Tail(files), content_of,
                            ignored_of, first_id + Len(content_of[filename]))

----------------------------------------------------------------------------
(* GitHistoryScanner *)

STILL_TRACKED_NOTE == "(Gitignored but still tracked in Git)"

\* a tagging loop that raises every historical Finding, tracked or not
TagHistoricalRaisingAll(of_file, is_tracked) ==
  [k \in 1..Len(of_file) |->
     [of_file[k] EXCEPT !.is_gitignored = TRUE, !.in_git_history = TRUE,
                        !.is_still_tracked = is_tracked, !.severity = HIGH]]

\* a tagging loop that also rewrites the risk type
TagHistoricalRetyping(of_file, is_tracked) ==
  [k \in 1..Len(of_file) |->
     [of_file[k] EXCEPT !.is_gitignored = TRUE, !.in_git_history = TRUE,
                        !.is_still_tracked = is_tracked,
                        !.risk_type = "SENSITIVE_CONFIG"]]

\* the tagging loop of scan_historical_files over the findings of one file
TagHistorical(of_file, is_tracked) ==
  [k \in 1..Len(of_file) |->
     LET finding == of_file[k]
         escalate == is_tracked /\ finding.severity # HIGH
     IN [finding EXCEPT
           !.is_gitignored = TRUE,
           !.in_git_history = TRUE,
           !.is_still_tracked = is_tracked,
           !.severity = IF escalate THEN HIGH ELSE @,
           !.description = IF escalate THEN Append(@, STILL_TRACKED_NOTE) ELSE @]]

\* sample_size = min(100, len(blob_paths))
SAMPLE_LIMIT == 100

Min(a, b) == IF a < b THEN a ELSE b

\* every result random.sample(population, sample_size) can give
Samples(population, sample_size) ==
  {s \in [1..sample_size -> population] :
     \A i, j \in 1..sample_size : i # j => s[i] # s[j]}

\* the findings of one blob, one line after another, regular patterns only
RECURSIVE BlobCandidates(_, _, _, _)
BlobCandidates(pm, blob, i, content) ==
  IF i > Len(content) THEN <<>>
  ELSE (IF ShouldExcludeLine(pm, content[i]) THEN <<>>
        ELSE Tagged(Firing(pm.compiled_patterns, content[i]), i, content[i], blob.path))
       \o BlobCandidates(pm, blob, i + 1, content)

RECURSIVE SampleCandidates(_, _)
SampleCandidates(pm, samples) ==
  IF samples = <<>> THEN <<>>
  ELSE BlobCandidates(pm, Head(samples), 1, Head(samples).content)
       \o SampleCandidates(pm, Tail(samples))

BlobFinding(c, id) ==
  Finding(id, GIT_BLOB_PREFIX \o c.group, c.line_number, c.line, c.pattern,
          HIGH, DetermineRiskType(c.line), <<"Found in Git history blob">>,
          FALSE, TRUE, FALSE)

\* an exception anywhere in the loop reaches the except clause of
\* _scan_git_objects, which returns []
RECURSIVE GateBlobCandidates(_, _, _, _, _)
GateBlobCandidates(entries, cands, k, first_id, acc) ==
  IF k > Len(cands) THEN acc
  ELSE
    LET finding == BlobFinding(cands[k], first_id + k - 1)
        allowed == IsAllowlisted(entries, finding)
    IN IF allowed = RE_ERROR THEN <<>>
       ELSE IF allowed = "True" THEN GateBlobCandidates(entries, cands, k + 1, first_id, acc)
       ELSE GateBlobCandidates(entries, cands, k + 1, first_id, Append(acc, finding))

\* GitHistoryScanner._scan_git_objects, for one outcome of random.sample;
\* git cat-file runs with check=True inside the same try as the whole loop,
\* so a blob in failing ends it in the except clause
ScanGitObjects(pm, entries, samples, first_id, failing) ==
  IF \E k \in 1..Len(samples) : samples[k].hash \in failing THEN <<>>
  ELSE GateBlobCandidates(entries, SampleCandidates(pm, samples), 1, first_id, <<>>)

----------------------------------------------------------------------------
(* SecretsScanner.scan: deduplication *)

Rank(severity) == IF severity = HIGH THEN 3 ELSE IF severity = MEDIUM THEN 2 ELSE 1

\* a deduplication that keeps the first Finding of a fingerprint whatever the
\* severities (the loop of the older scanner)
RECURSIVE DedupFirstWins(_, _)
DedupFirstWins(all, unique_findings) ==
  IF all = <<>> THEN unique_findings
  ELSE IF \E k \in 1..Len(unique_findings) :
            unique_findings[k].fingerprint = Head(all).fingerprint
    THEN DedupFirstWins(Tail(all), unique_findings)
  ELSE DedupFirstWins(Tail(all), Append(unique_findings, Head(all)))

\* a loop that also replaces the Finding it holds by a later one of the same
\* severity
RECURSIVE DedupLoopReplacingOnTies(_, _)
DedupLoopReplacingOnTies(all, unique_findings) ==
  IF all = <<>> THEN unique_findings
  ELSE
    LET finding == Head(all)
        at == {k \in 1..Len(unique_findings) :
                 unique_findings[k].fingerprint = finding.fingerprint}
    IN IF at = {} THEN DedupLoopReplacingOnTies(Tail(all), Append(unique_findings, finding))
       ELSE
         LET k == CHOOSE k \in at : TRUE
         IN IF Rank(finding.severity) >= Rank(unique_findings[k].severity)
            THEN DedupLoopReplacingOnTies(Tail(all), [unique_findings EXCEPT ![k] = finding])
            ELSE DedupLoopReplacingOnTies(Tail(all), unique_findings)

\* the loop over all_findings; unique_findings is a dict, so a replaced value
\* keeps the position of its key
RECURSIVE DedupLoop(_, _)
DedupLoop(all, unique_findings) ==
  IF all = <<>> THEN unique_findings
  ELSE
    LET finding == Head(all)
        at == {k \in 1..Len(unique_findings) :
                 unique_findings[k].fingerprint = finding.fingerprint}
    IN IF at = {} THEN DedupLoop(Tail(all), Append(unique_findings, finding))
       ELSE
         LET k == CHOOSE k \in at : TRUE
             existing == unique_findings[k]
         IN IF \/ (finding.severity = HIGH /\ existing.severity # HIGH)
               \/ (finding.severity = MEDIUM /\ existing.severity = LOW)
            THEN DedupLoop(Tail(all), [unique_findings EXCEPT ![k] = finding])
            ELSE DedupLoop(Tail(all), unique_findings)

Reverse(s) == [i \in 1..Len(s) |-> s[Len(s) + 1 - i]]

\* a deduplication that hands the survivors back last first
DedupReversed(all) == Reverse(DedupLoop(all, <<>>))

\* list(unique_findings.values())
Dedup(all) == DedupLoop(all, <<>>)

----------------------------------------------------------------------------
(* The repository a scan runs on, and the command line *)

MaxLines == 1     \* lines per file
MaxBlobs == 2     \* git objects rev-list reports
MaxAllow == 1     \* entries in the allowlist file
MaxRuns == 2      \* scans of the same tree, one after the other

RECURSIVE SeqsUpTo(_, _)
SeqsUpTo(S, n) ==
  IF n = 0 THEN {<<>>}
  ELSE SeqsUpTo(S, n - 1)
       \cup {Append(s, x) : s \in {t \in SeqsUpTo(S, n - 1) : Len(t) = n - 1}, x \in S}

KINDS_A == <<"L_BEARER", "L_JWT", "L_PASSWORD", "L_CLIENT_SECRET">>
KINDS_C == <<"L_USER", "L_EXAMPLE">>
KINDS_BLOB == <<"L_BEARER", "L_JWT", "L_COMMENT", "L_PASSWORD">>

Contents == [a |-> SeqsUpTo(Range(KINDS_A), MaxLines) \ {<<>>},
             c |-> SeqsUpTo(Range(KINDS_C), MaxLines) \ {<<>>}]

\* what git answers about a file: check-ignore (gitignored), log --name-only
\* (in history) and ls-files --error-unmatch (still tracked)
GitStatus == {"clean", "ignored", "tracked"}

IsFileGitignored(status, file_path) == status[file_path] # "clean"
IsFileStillTracked(status, file_path) == status[file_path] = "tracked"
IsFileInGitHistory(status, file_path) == status[file_path] \in {"ignored", "tracked"}

\* the objects of the repository: older versions of a.py
Blob(h) == [hash |-> h, path |-> PATH_A,
            content |-> <<KINDS_BLOB[((h - 1) % Len(KINDS_BLOB)) + 1]>>]

\* the keys an allowlist file can hold
ALLOW_ENTRIES ==
  << Fingerprint(PATH_A, 1),
     FullFingerprint(PATH_A, 1, PAT_OVERRIDE_PASSWORD),
     PATH_C \o <<":", "1", ":", "*">>,
     <<"(", "*">> >>

Distinct(s) == \A i, j \in 1..Len(s) : i # j => s[i] # s[j]

Allowlists == {s \in SeqsUpTo(Range(ALLOW_ENTRIES), MaxAllow) : Distinct(s)}

Options ==
  {o \in [mode : {"loose", "strict"}, high_only : BOOLEAN,
          scan_gitignored : BOOLEAN, use_detect_secrets : BOOLEAN,
          check_git_history : BOOLEAN, deep_scan : BOOLEAN] :
     o.deep_scan => o.check_git_history}

\* os.walk(self.directory)
WALK == <<PATH_A, PATH_C>>

\* SecretsScanner._collect_files_to_scan
CollectFilesToScan(pm, status, scan_gitignored) ==
  LET wanted == SelectSeqBy(WALK, {p \in Paths : ShouldScanFile(pm, p)})
      gitignored_files == SelectSeqBy(wanted, {p \in Paths : IsFileGitignored(status, p)})
      plain == SelectSeqBy(wanted, {p \in Paths : ~IsFileGitignored(status, p)})
  IN IF scan_gitignored THEN plain \o gitignored_files ELSE plain

\* GitUtils.get_historical_files: the paths of the history that are
\* gitignored now; they come out of a set, in any order
HistoricalFiles(status) ==
  {p \in Paths : IsFileInGitHistory(status, p) /\ IsFileGitignored(status, p)}

Orders(S) == Samples(S, Cardinality(S))

----------------------------------------------------------------------------
(* SecretsScanner.scan, step by step *)

pm == PatternManager(opts.mode)

\* no --pattern-file argument
NO_PATTERN_FILE == [kind |-> "none"]

\* the constructor ran on the default patterns: its groups are those of pm
DefaultsCompiled == [raised |-> FALSE]

NoProbe == [by |-> "none"]

\* every file can be read
NoReadErrors == [p \in Paths |-> <<>>]

\* the tree, git's answers, the command line, and main() about to call scan()
Start ==
  /\ lines \in [Paths -> Contents.a \cup Contents.c]
  /\ lines[PATH_A] \in Contents.a
  /\ lines[PATH_C] \in Contents.c
  /\ git \in [Paths -> GitStatus]
  /\ git[PATH_C] # "ignored"
  /\ opts \in Options
  /\ blobs = IF opts.deep_scan THEN {Blob(h) : h \in 1..MaxBlobs} ELSE {}
  /\ allowlist = <<>>
  /\ pc = "collect"
  /\ files_to_scan = <<>>
  /\ todo = <<>>
  /\ pattern_findings = <<>>
  /\ detect_secrets_findings = <<>>
  /\ git_findings = <<>>
  /\ file_findings = <<>>
  /\ all_findings = <<>>
  /\ findings = <<>>
  /\ aborted = {}
  /\ next_id = 1
  /\ run = 1
  /\ prev_findings = <<>>
  /\ prev_allowlist = <<>>
  /\ probe = NoProbe
  /\ verdict = NoProbe
  /\ high_findings_exist = FALSE
  /\ exit_code = <<>>
  /\ pattern_file = NO_PATTERN_FILE
  /\ pattern_manager = DefaultsCompiled

Init == Start /\ read_error = NoReadErrors /\ fetch_error = {}

\* the same, on a tree where reading a.py raises: at open(), or after some
\* of its lines
InitRead ==
  /\ Start
  /\ lines[PATH_C] = <<"L_USER">>
  /\ git[PATH_C] = "clean"
  /\ read_error \in [Paths -> {<<>>} \cup {<<k>> : k \in 0..MaxLines}]
  /\ read_error[PATH_C] = <<>>
  /\ read_error[PATH_A] # <<>>
  /\ read_error[PATH_A][1] <= Len(lines[PATH_A])
  /\ fetch_error = {}

\* the same, on a repository with objects git cat-file fails on
InitFetch ==
  /\ Start
  /\ opts.deep_scan
  /\ read_error = NoReadErrors
  /\ fetch_error \in SUBSET {b.hash : b \in blobs}
  /\ fetch_error # {}

Inputs == <<lines, git, blobs, opts, read_error, fetch_error>>

\* the lines the loop of scan_file gets before open() or the iteration raises
ReadLines(file_path) ==
  IF read_error[file_path] = <<>> THEN lines[file_path]
  ELSE SubSeq(lines[file_path], 1, read_error[file_path][1])

\* what the detector gets of each file: its own read of an unreadable file fails
DetectorLines ==
  [p \in Paths |-> IF read_error[p] = <<>> THEN lines[p] ELSE <<>>]

\* scan(), step 1
CollectFiles ==
  /\ pc = "collect"
  /\ LET collected == CollectFilesToScan(pm, git, opts.scan_gitignored) IN
       /\ files_to_scan' = collected
       /\ todo' = collected
       /\ pc' = IF collected = <<>> THEN "done" ELSE "scan_files"
  /\ UNCHANGED <<Inputs, allowlist, pattern_findings, detect_secrets_findings,
                 git_findings, file_findings, all_findings, findings, aborted,
                 next_id, run, prev_findings, prev_allowlist, probe, verdict, Main, Patterns>>

\* scan(), step 2: one turn of the loop over files_to_scan
ScanNextFile ==
  /\ pc = "scan_files"
  /\ todo # <<>>
  /\ LET file_path == Head(todo)
         r == ScanFile(pm, allowlist, opts.high_only, file_path, ReadLines(file_path), next_id)
     IN /\ pattern_findings' = pattern_findings \o r.findings
        /\ aborted' = IF r.raised \/ read_error[file_path] # <<>>
                      THEN aborted \cup {file_path} ELSE aborted
        /\ next_id' = next_id + CandidateCount(pm, file_path, lines[file_path])
  /\ todo' = Tail(todo)
  /\ pc' = IF Tail(todo) = <<>> THEN "detect" ELSE "scan_files"
  /\ UNCHANGED <<Inputs, allowlist, files_to_scan, detect_secrets_findings,
                 git_findings, file_findings, all_findings, findings, run,
                 prev_findings, prev_allowlist, probe, verdict, Main, Patterns>>

\* scan(), step 3
DetectSecretsScan ==
  /\ pc = "detect"
  /\ detect_secrets_findings' =
       IF opts.use_detect_secrets
       THEN RunDetectSecretsScan(pm, allowlist, opts.high_only, files_to_scan,
                                 DetectorLines,
                                 [p \in Paths |-> IsFileGitignored(git, p)], next_id)
       ELSE <<>>
  /\ next_id' = next_id + Len(lines[PATH_A]) + Len(lines[PATH_C])
  /\ pc' = "history"
  /\ UNCHANGED <<Inputs, allowlist, files_to_scan, todo, pattern_findings,
                 git_findings, file_findings, all_findings, findings, aborted,
                 run, prev_findings, prev_allowlist, probe, verdict, Main, Patterns>>

AfterHistoricalFiles(rest) ==
  IF rest # <<>> THEN "hist_scan" ELSE IF opts.deep_scan THEN "deep" ELSE "combine"

\* scan(), step 4, and the head of scan_historical_files
ScanHistoricalFiles ==
  /\ pc = "history"
  /\ IF opts.check_git_history
     THEN \E historical_files \in Orders(HistoricalFiles(git)) :
            LET wanted == SelectSeqBy(historical_files,
                                      {p \in Paths : ShouldScanFile(pm, p)})
            IN /\ todo' = wanted
               /\ pc' = AfterHistoricalFiles(wanted)
     ELSE /\ todo' = <<>>
          /\ pc' = "combine"
  /\ UNCHANGED <<Inputs, allowlist, files_to_scan, pattern_findings,
                 detect_secrets_findings, git_findings, file_findings,
                 all_findings, findings, aborted, next_id, run, prev_findings,
                 prev_allowlist, probe, verdict, Main, Patterns>>

\* scan_historical_files: file_findings = self.scanner.scan_file(file_path)
HistScanFile ==
  /\ pc = "hist_scan"
  /\ LET file_path == Head(todo)
         r == ScanFile(pm, allowlist, opts.high_only, file_path, ReadLines(file_path), next_id)
     IN /\ file_findings' = r.findings
        /\ aborted' = IF r.raised \/ read_error[file_path] # <<>>
                      THEN aborted \cup {file_path} ELSE aborted
        /\ next_id' = next_id + CandidateCount(pm, file_path, lines[file_path])
  /\ pc' = "hist_tag"
  /\ UNCHANGED <<Inputs, allowlist, files_to_scan, todo, pattern_findings,
                 detect_secrets_findings, git_findings, all_findings, findings,
                 run, prev_findings, prev_allowlist, probe, verdict, Main, Patterns>>

\* scan_historical_files: the tagging loop and findings.extend(file_findings)
HistTagFindings ==
  /\ pc = "hist_tag"
  /\ git_findings' = git_findings
                     \o TagHistorical(file_findings, IsFileStillTracked(git, Head(todo)))
  /\ file_findings' = <<>>
  /\ todo' = Tail(todo)
  /\ pc' = AfterHistoricalFiles(Tail(todo))
  /\ UNCHANGED <<Inputs, allowlist, files_to_scan, pattern_findings,
                 detect_secrets_findings, all_findings, findings, aborted,
                 next_id, run, prev_findings, prev_allowlist, probe, verdict, Main, Patterns>>

\* blob_paths: the objects whose path should_scan_file accepts
BlobPaths == {b \in blobs : ShouldScanFile(pm, b.path)}

\* scan_historical_files: findings.extend(self._scan_git_objects())
DeepScan ==
  /\ pc = "deep"
  /\ \E samples \in Samples(BlobPaths, Min(SAMPLE_LIMIT, Cardinality(BlobPaths))) :
       /\ git_findings' = git_findings \o ScanGitObjects(pm, allowlist, samples, next_id, fetch_error)
       /\ next_id' = next_id + Len(SampleCandidates(pm, samples))
  /\ pc' = "combine"
  /\ UNCHANGED <<Inputs, allowlist, files_to_scan, todo, pattern_findings,
                 detect_secrets_findings, file_findings, all_findings, findings,
                 aborted, run, prev_findings, prev_allowlist, probe, verdict, Main, Patterns>>

\* scan(), step 5
CombineAndDedup ==
  /\ pc = "combine"
  /\ all_findings' = pattern_findings \o detect_secrets_findings \o git_findings
  /\ findings' = Dedup(all_findings')
  /\ pc' = "done"
  /\ UNCHANGED <<Inputs, allowlist, files_to_scan, todo, pattern_findings,
                 detect_secrets_findings, git_findings, file_findings, aborted,
                 next_id, run, prev_findings, prev_allowlist, probe, verdict, Main, Patterns>>

\* a report that answers whether anything was found
PrintReportAnyFinding(found) == found # <<>>

\* SecretsScanner.print_report
PrintReport(found) ==
  IF found = <<>> THEN FALSE
  ELSE LET high_findings == SelectSeq(found, LAMBDA f : f.severity = HIGH)
       IN Len(high_findings) > 0

\* main(): high_findings_exist = scanner.print_report()
Report ==
  /\ pc = "done"
  /\ high_findings_exist' = PrintReport(findings)
  /\ pc' = "report"
  /\ UNCHANGED <<Inputs, allowlist, files_to_scan, todo, pattern_findings,
                 detect_secrets_findings, git_findings, file_findings,
                 all_findings, findings, aborted, next_id, run, prev_findings,
                 prev_allowlist, probe, verdict, exit_code, Patterns>>

\* main(): the status handed to sys.exit
ExitStatus(high_only, high_exist, found) ==
  IF high_only
  THEN IF high_exist THEN 1 ELSE 0
  ELSE IF found # <<>> THEN 1 ELSE 0

\* main(): exit with the appropriate status code
Exit ==
  /\ pc = "report"
  /\ exit_code' = <<ExitStatus(opts.high_only, high_findings_exist, findings)>>
  /\ pc' = "exited"
  /\ UNCHANGED <<Inputs, allowlist, files_to_scan, todo, pattern_findings,
                 detect_secrets_findings, git_findings, file_findings,
                 all_findings, findings, aborted, next_id, run, prev_findings,
                 prev_allowlist, probe, verdict, high_findings_exist,
                 Patterns>>

\* main() once more on the same tree, with the same options; the allowlist
\* file may have gained entries in between
Rerun ==
  /\ pc = "exited"
  /\ run < MaxRuns
  /\ prev_findings' = findings
  /\ prev_allowlist' = allowlist
  /\ \E more \in Allowlists :
       /\ Range(more) \cap Range(allowlist) = {}
       /\ Len(allowlist \o more) <= MaxAllow
       /\ allowlist' = allowlist \o more
  /\ run' = run + 1
  /\ pc' = "collect"
  /\ files_to_scan' = <<>>
  /\ todo' = <<>>
  /\ pattern_findings' = <<>>
  /\ detect_secrets_findings' = <<>>
  /\ git_findings' = <<>>
  /\ file_findings' = <<>>
  /\ all_findings' = <<>>
  /\ findings' = <<>>
  /\ aborted' = {}
  /\ next_id' = 1
  /\ high_findings_exist' = FALSE
  /\ exit_code' = <<>>
  /\ UNCHANGED <<Inputs, probe, verdict, Patterns>>

Next ==
  \/ CollectFiles
  \/ ScanNextFile
  \/ DetectSecretsScan
  \/ ScanHistoricalFiles
  \/ HistScanFile
  \/ HistTagFindings
  \/ DeepScan
  \/ CombineAndDedup
  \/ Report
  \/ Exit
  \/ Rerun

Spec == Init /\ [][Next]_vars

SpecRead == InitRead /\ [][Next]_vars

SpecFetch == InitFetch /\ [][Next]_vars

----------------------------------------------------------------------------
(* The deduplication step of scan() on any list of Findings *)

MaxDedup == 3     \* Findings in the list handed to the deduplication

\* what tells two Findings of one file apart in the deduplication
DedupShapes == [line_number : {1, 2}, pattern : {PAT_BEARER, PAT_JWT}, severity : Severity]

DedupInputs ==
  UNION {[1..n -> DedupShapes] : n \in 0..MaxDedup}

ShapedFinding(id, shape) ==
  Finding(id, PATH_A, shape.line_number, "L_BEARER", shape.pattern, shape.severity,
          "HARDCODED_SECRET", <<>>, FALSE, FALSE, FALSE)

InitDedup ==
  /\ \E shapes \in DedupInputs :
       all_findings = [i \in 1..Len(shapes) |-> ShapedFinding(i, shapes[i])]
  /\ pc = "dedup_input"
  /\ lines = [p \in Paths |-> <<>>]
  /\ git = [p \in Paths |-> "clean"]
  /\ blobs = {}
  /\ opts \in Options
  /\ opts.mode = "loose" /\ ~opts.high_only /\ ~opts.scan_gitignored
  /\ ~opts.use_detect_secrets /\ ~opts.check_git_history
  /\ allowlist = <<>>
  /\ files_to_scan = <<>>
  /\ todo = <<>>
  /\ pattern_findings = <<>>
  /\ detect_secrets_findings = <<>>
  /\ git_findings = <<>>
  /\ file_findings = <<>>
  /\ findings = <<>>
  /\ aborted = {}
  /\ next_id = 1
  /\ run = 1
  /\ prev_findings = <<>>
  /\ prev_allowlist = <<>>
  /\ probe = NoProbe
  /\ verdict = NoProbe
  /\ high_findings_exist = FALSE
  /\ exit_code = <<>>
  /\ pattern_file = NO_PATTERN_FILE
  /\ pattern_manager = DefaultsCompiled
  /\ read_error = NoReadErrors
  /\ fetch_error = {}

\* scan(), the loop over all_findings and self.findings = list(...)
RemoveDuplicates ==
  /\ pc = "dedup_input"
  /\ findings' = Dedup(all_findings)
  /\ pc' = "dedup_output"
  /\ UNCHANGED <<Inputs, allowlist, files_to_scan, todo, pattern_findings,
                 detect_secrets_findings, git_findings, file_findings,
                 all_findings, aborted, next_id, run, prev_findings,
                 prev_allowlist, probe, verdict, Main, Patterns>>

\* the same loop once more, over the list it returned
RemoveDuplicatesAgain ==
  /\ pc = "dedup_output"
  /\ all_findings' = findings
  /\ findings' = Dedup(findings)
  /\ prev_findings' = all_findings
  /\ pc' = "dedup_again"
  /\ UNCHANGED <<Inputs, allowlist, files_to_scan, todo, pattern_findings,
                 detect_secrets_findings, git_findings, file_findings, aborted,
                 next_id, run, prev_allowlist, probe, verdict, Main, Patterns>>

NextDedup == RemoveDuplicates \/ RemoveDuplicatesAgain

SpecDedup == InitDedup /\ [][NextDedup]_vars

----------------------------------------------------------------------------
(* The allowlist matchers on their own *)

ProbePaths == {PATH_A, GIT_BLOB_PREFIX \o PATH_A}
ProbeLines == {1, 2, 12}
GlobLines == {1, 2}
ProbePatterns == {PAT_BEARER, DETECT_SECRETS_PREFIX \o SECRET_KEYWORD}

\* the Findings a matcher is asked about
ProbeFinding(file_path, line_number, pattern) ==
  Finding(0, file_path, line_number, "L_BEARER", pattern, LOW, "HARDCODED_SECRET",
          <<>>, FALSE, FALSE, FALSE)

\* the allowlist entry <file>:<line>:*
GlobEntry(file_path, line_number) == Fingerprint(file_path, line_number) \o <<":", "*">>

\* the keys of the allowlist file: globs scoped to a line, exact keys, and
\* globs whose remainder holds regex metacharacters
ProbeEntries ==
  {GlobEntry(p, n) : p \in ProbePaths, n \in GlobLines}
  \cup {Fingerprint(PATH_A, 1), FullFingerprint(PATH_A, 1, PAT_BEARER)}
  \cup {<<"(", "*">>, <<"[", "*">>, <<"+", "a", "*">>}

ProbeAllowlists == {s \in SeqsUpTo(ProbeEntries, MaxAllow) : Distinct(s)}

InitAllow ==
  /\ allowlist \in ProbeAllowlists
  /\ pc = "allowlist"
  /\ probe = NoProbe
  /\ verdict = NoProbe
  /\ high_findings_exist = FALSE
  /\ exit_code = <<>>
  /\ pattern_file = NO_PATTERN_FILE
  /\ pattern_manager = DefaultsCompiled
  /\ read_error = NoReadErrors
  /\ fetch_error = {}
  /\ lines = [p \in Paths |-> <<>>]
  /\ git = [p \in Paths |-> "clean"]
  /\ blobs = {}
  /\ opts \in Options
  /\ opts.mode = "loose" /\ ~opts.high_only /\ ~opts.scan_gitignored
  /\ ~opts.use_detect_secrets /\ ~opts.check_git_history
  /\ files_to_scan = <<>>
  /\ todo = <<>>
  /\ pattern_findings = <<>>
  /\ detect_secrets_findings = <<>>
  /\ git_findings = <<>>
  /\ file_findings = <<>>
  /\ all_findings = <<>>
  /\ findings = <<>>
  /\ aborted = {}
  /\ next_id = 1
  /\ run = 1
  /\ prev_findings = <<>>
  /\ prev_allowlist = <<>>

Probed(by, finding, result) ==
  /\ probe' = finding
  /\ verdict' = [by |-> by, result |-> result]
  /\ UNCHANGED <<Inputs, allowlist, pc, files_to_scan, todo, pattern_findings,
                 detect_secrets_findings, git_findings, file_findings,
                 all_findings, findings, aborted, next_id, run, prev_findings,
                 prev_allowlist, Main, Patterns>>

\* AllowlistManager.is_allowlisted(finding)
CallIsAllowlisted ==
  /\ pc = "allowlist"
  /\ \E p \in ProbePaths, n \in ProbeLines, pattern \in ProbePatterns :
       Probed("is_allowlisted", ProbeFinding(p, n, pattern),
              IsAllowlisted(allowlist, ProbeFinding(p, n, pattern)))

\* the older scanner's _is_acceptable_finding(finding), same entries
CallIsAcceptableFinding ==
  /\ pc = "allowlist"
  /\ \E p \in ProbePaths, n \in ProbeLines, pattern \in ProbePatterns :
       Probed("_is_acceptable_finding", ProbeFinding(p, n, pattern),
              IsAcceptableFinding(allowlist, ProbeFinding(p, n, pattern)))

NextAllow == CallIsAllowlisted \/ CallIsAcceptableFinding

SpecAllow == InitAllow /\ [][NextAllow]_vars

----------------------------------------------------------------------------
(* PatternManager.__init__ on a pattern file *)

\* None, where a pattern string is expected
NONE == <<"None">>

\* r"(\s+": "missing ), unterminated subpattern"
PAT_UNCLOSED == <<"(", "\\", "s", "+">>

\* r"+a": "nothing to repeat"
PAT_NOTHING_TO_REPEAT == <<"+", "a">>

\* s.replace(from, to)
RECURSIVE ReplaceAll(_, _, _)
ReplaceAll(s, from, to) ==
  IF Len(s) < Len(from) THEN s
  ELSE IF SubSeq(s, 1, Len(from)) = from
       THEN to \o ReplaceAll(SubSeq(s, Len(from) + 1, Len(s)), from, to)
       ELSE <<Head(s)>> \o ReplaceAll(Tail(s), from, to)

\* pattern.replace('\\s+', '\\s*').replace('{10,}', '{10,100}')
Simplified(pattern) ==
  ReplaceAll(ReplaceAll(pattern, <<"\\", "s", "+">>, <<"\\", "s", "*">>),
             <<"{", "1", "0", ",", "}">>,
             <<"{", "1", "0", ",", "1", "0", "0", "}">>)

\* one of the compile loops of _compile_patterns; only re.error is caught,
\* and only the loop over the main patterns retries
RECURSIVE CompileLoop(_, _, _, _)
CompileLoop(patterns, retry, i, acc) ==
  IF i > Len(patterns) THEN [raised |-> FALSE, compiled |-> acc]
  ELSE IF patterns[i] = NONE
       THEN [raised |-> TRUE, compiled |-> acc]  \* TypeError out of re.compile
  ELSE IF ~ReCompile(patterns[i]).err
       THEN CompileLoop(patterns, retry, i + 1,
                        Append(acc, [regex |-> patterns[i], pattern |-> patterns[i]]))
  ELSE IF retry /\ ~ReCompile(Simplified(patterns[i])).err
       THEN CompileLoop(patterns, retry, i + 1,
                        Append(acc, [regex |-> Simplified(patterns[i]),
                                     pattern |-> patterns[i]]))
  ELSE CompileLoop(patterns, retry, i + 1, acc)

\* the value of a group: a list, or None (a key whose value is null)
Group(items) == [none |-> FALSE, items |-> items]
NoneGroup == [none |-> TRUE, items |-> <<>>]

\* a loop over a group; iterating None raises TypeError
CompileGroup(group, retry) ==
  IF group.none THEN [raised |-> TRUE, compiled |-> <<>>]
  ELSE CompileLoop(group.items, retry, 1, <<>>)

\* "a|b|c" for the words of an exclusion pattern
RECURSIVE Alternation(_)
Alternation(words) ==
  IF Len(words) = 1 THEN words[1]
  ELSE words[1] \o <<"|">> \o Alternation(Tail(words))

\* _load_default_patterns: the pattern groups
DefaultGroups ==
  [loose_patterns |-> Group(<<PAT_BEARER, PAT_CLIENT_SECRET, PAT_POSTGRES_URL,
                             PAT_MONGODB_URL>>),
   additional_patterns |-> Group(<<PAT_JWT, PAT_PASSWORD_ASSIGN>>),
   strict_patterns |-> Group(<<PAT_STRICT_PASSWORD, PAT_STRICT_AUTH, PAT_STRICT_PASS>>),
   override_patterns |-> Group(<<PAT_CLIENT_SECRET, PAT_OVERRIDE_PASSWORD>>),
   config_patterns |-> Group(<<PAT_CONFIG_PASSWORD, PAT_CONFIG_KEY, PAT_CONFIG_USER>>),
   exclusion_patterns |-> Group(<<Alternation(EXCLUSION_WORDS),
                                  Alternation(EXCLUSION_COMMENT),
                                  Alternation(EXCLUSION_TODO)>>)]

\* _load_patterns_from_file, or _load_default_patterns when there is no file
\* or loading it raises
LoadPatterns(file) ==
  IF file.kind = "dict" THEN file.groups ELSE DefaultGroups

NotConstructed == [raised |-> TRUE,
                   compiled_patterns |-> <<>>, compiled_overrides |-> <<>>,
                   compiled_config_patterns |-> <<>>, compiled_exclusions |-> <<>>]

\* _compile_patterns
CompilePatterns(mode, groups) ==
  LET patterns_to_use ==
        IF mode = "strict" THEN groups.strict_patterns
        ELSE IF groups.loose_patterns.none \/ groups.additional_patterns.none
             THEN NoneGroup  \* None + list raises TypeError
             ELSE Group(groups.loose_patterns.items \o groups.additional_patterns.items)
      main == CompileGroup(patterns_to_use, TRUE)
      overrides == CompileGroup(groups.override_patterns, FALSE)
      configs == CompileGroup(groups.config_patterns, FALSE)
      exclusions == CompileGroup(groups.exclusion_patterns, FALSE)
  IN IF main.raised \/ overrides.raised \/ configs.raised \/ exclusions.raised
     THEN NotConstructed
     ELSE [raised |-> FALSE,
           compiled_patterns |-> main.compiled,
           compiled_overrides |-> overrides.compiled,
           compiled_config_patterns |-> configs.compiled,
           compiled_exclusions |-> exclusions.compiled]

\* PatternManager(mode, pattern_file)
ConstructPatternManager(mode, file) == CompilePatterns(mode, LoadPatterns(file))

MaxPatterns == 2  \* entries of a pattern group in the file

PatternEntries == {PAT_STRICT_AUTH, PAT_UNCLOSED, NONE}

\* a group the file can hold: absent (config.get gives []), null, or a list
LongGroups == {NoneGroup} \cup {Group(s) : s \in SeqsUpTo(PatternEntries, MaxPatterns)}
ShortGroups == {Group(<<>>), NoneGroup, Group(<<PAT_STRICT_AUTH>>),
                Group(<<PAT_NOTHING_TO_REPEAT>>)}

PatternFiles ==
  {NO_PATTERN_FILE, [kind |-> "unparsable"]}
  \cup {[kind |-> "dict", groups |-> g] :
          g \in [loose_patterns : LongGroups, additional_patterns : ShortGroups,
                 strict_patterns : ShortGroups \cup {Group(<<NONE>>)},
                 override_patterns : LongGroups, config_patterns : ShortGroups,
                 exclusion_patterns : ShortGroups]}

InitCompile ==
  /\ pattern_file \in PatternFiles
  /\ pattern_manager = NotConstructed
  /\ pc = "construct"
  /\ opts \in Options
  /\ ~opts.high_only /\ ~opts.scan_gitignored
  /\ ~opts.use_detect_secrets /\ ~opts.check_git_history
  /\ lines = [p \in Paths |-> <<>>]
  /\ git = [p \in Paths |-> "clean"]
  /\ blobs = {}
  /\ allowlist = <<>>
  /\ files_to_scan = <<>>
  /\ todo = <<>>
  /\ pattern_findings = <<>>
  /\ detect_secrets_findings = <<>>
  /\ git_findings = <<>>
  /\ file_findings = <<>>
  /\ all_findings = <<>>
  /\ findings = <<>>
  /\ aborted = {}
  /\ next_id = 1
  /\ run = 1
  /\ prev_findings = <<>>
  /\ prev_allowlist = <<>>
  /\ probe = NoProbe
  /\ verdict = NoProbe
  /\ high_findings_exist = FALSE
  /\ exit_code = <<>>
  /\ read_error = NoReadErrors
  /\ fetch_error = {}

\* SecretsScanner.__init__: self.pattern_manager = PatternManager(mode, pattern_file)
Construct ==
  /\ pc = "construct"
  /\ pattern_manager' = ConstructPatternManager(opts.mode, pattern_file)
  /\ pc' = "constructed"
  /\ UNCHANGED <<Inputs, allowlist, files_to_scan, todo, pattern_findings,
                 detect_secrets_findings, git_findings, file_findings,
                 all_findings, findings, aborted, next_id, run, prev_findings,
                 prev_allowlist, probe, verdict, Main, pattern_file>>

NextCompile == Construct

SpecCompile == InitCompile /\ [][NextCompile]_vars

----------------------------------------------------------------------------
(* The Classifier on its own *)

ALL_PATTERNS ==
  {PAT_BEARER, PAT_JWT, PAT_PASSWORD_ASSIGN, PAT_STRICT_PASSWORD, PAT_STRICT_AUTH,
   PAT_STRICT_PASS, PAT_CLIENT_SECRET, PAT_OVERRIDE_PASSWORD,
   PAT_CONFIG_PASSWORD, PAT_CONFIG_KEY, PAT_CONFIG_USER, PAT_POSTGRES_URL,
   PAT_MONGODB_URL}

InitClassify ==
  /\ pc = "classify"
  /\ probe = NoProbe
  /\ verdict = NoProbe
  /\ opts \in Options
  /\ ~opts.high_only /\ ~opts.scan_gitignored
  /\ ~opts.use_detect_secrets /\ ~opts.check_git_history
  /\ lines = [p \in Paths |-> <<>>]
  /\ git = [p \in Paths |-> "clean"]
  /\ blobs = {}
  /\ allowlist = <<>>
  /\ files_to_scan = <<>>
  /\ todo = <<>>
  /\ pattern_findings = <<>>
  /\ detect_secrets_findings = <<>>
  /\ git_findings = <<>>
  /\ file_findings = <<>>
  /\ all_findings = <<>>
  /\ findings = <<>>
  /\ aborted = {}
  /\ next_id = 1
  /\ run = 1
  /\ prev_findings = <<>>
  /\ prev_allowlist = <<>>
  /\ high_findings_exist = FALSE
  /\ exit_code = <<>>
  /\ pattern_file = NO_PATTERN_FILE
  /\ pattern_manager = DefaultsCompiled
  /\ read_error = NoReadErrors
  /\ fetch_error = {}

\* self._determine_severity_and_risk(file_path, line_content, matching_pattern)
CallDetermineSeverityAndRisk ==
  /\ pc = "classify"
  /\ \E file_path \in Paths, line_content \in Lines, matching_pattern \in ALL_PATTERNS :
       Probed("_determine_severity_and_risk",
              [by |-> "_determine_severity_and_risk", file_path |-> file_path,
               line_content |-> line_content, matching_pattern |-> matching_pattern],
              DetermineSeverityAndRisk(pm, file_path, line_content, matching_pattern))

NextClassify == CallDetermineSeverityAndRisk

SpecClassify == InitClassify /\ [][NextClassify]_vars

----------------------------------------------------------------------------
(* scan_file on its own, on a file of one line *)

InitScanFile ==
  /\ pc = "scan_file"
  /\ probe = NoProbe
  /\ verdict = NoProbe
  /\ opts \in Options
  /\ ~opts.scan_gitignored
  /\ ~opts.use_detect_secrets /\ ~opts.check_git_history
  /\ lines = [p \in Paths |-> <<>>]
  /\ git = [p \in Paths |-> "clean"]
  /\ blobs = {}
  /\ allowlist = <<>>
  /\ files_to_scan = <<>>
  /\ todo = <<>>
  /\ pattern_findings = <<>>
  /\ detect_secrets_findings = <<>>
  /\ git_findings = <<>>
  /\ file_findings = <<>>
  /\ all_findings = <<>>
  /\ findings = <<>>
  /\ aborted = {}
  /\ next_id = 1
  /\ run = 1
  /\ prev_findings = <<>>
  /\ prev_allowlist = <<>>
  /\ high_findings_exist = FALSE
  /\ exit_code = <<>>
  /\ pattern_file = NO_PATTERN_FILE
  /\ pattern_manager = DefaultsCompiled
  /\ read_error = NoReadErrors
  /\ fetch_error = {}

\* self.scan_file(file_path)
CallScanFile ==
  /\ pc = "scan_file"
  /\ \E file_path \in Paths, line \in Lines :
       Probed("scan_file",
              [by |-> "scan_file", file_path |-> file_path, content |-> <<line>>],
              ScanFile(pm, allowlist, opts.high_only, file_path, <<line>>, 1))

NextScanFile == CallScanFile

SpecScanFile == InitScanFile /\ [][NextScanFile]_vars

----------------------------------------------------------------------------
(* Properties of the deduplication *)

FingerprintsOf(s) == {s[i].fingerprint : i \in 1..Len(s)}

\* C1: whatever list of Findings the deduplication of scan() is given, for
\* every fingerprint of the list its output holds exactly one Finding, that
\* survivor is one of the Findings of the list and its severity is the
\* highest of those that share the fingerprint; the output has no other
\* fingerprint.
C1_DedupOnePerFingerprintMaxSeverity ==
  pc \in {"dedup_output", "dedup_again"} =>
    /\ \A i, j \in 1..Len(findings) :
         i # j => findings[i].fingerprint # findings[j].fingerprint
    /\ FingerprintsOf(findings) = FingerprintsOf(all_findings)
    /\ \A i \in 1..Len(findings) :
         /\ findings[i] \in Range(all_findings)
         /\ \A k \in 1..Len(all_findings) :
              all_findings[k].fingerprint = findings[i].fingerprint
                => Rank(all_findings[k].severity) <= Rank(findings[i].severity)

\* the deduplication met a later Finding of higher severity on a fingerprint
\* it already held, and dropped a Finding
C1_Witness ==
  /\ pc = "dedup_output"
  /\ Len(findings) < Len(all_findings)
  /\ \E i, j \in 1..Len(all_findings) :
       /\ i < j
       /\ all_findings[i].fingerprint = all_findings[j].fingerprint
       /\ Rank(all_findings[i].severity) < Rank(all_findings[j].severity)

\* C7: the deduplication of scan(), given a list that is already its own
\* output, returns the same Findings in the same order.
C7_DedupIdempotent ==
  pc = "dedup_again" => findings = all_findings

\* the second deduplication ran on the output of a first one that had dropped
\* a duplicate and kept two Findings
C7_Witness ==
  /\ pc = "dedup_again"
  /\ Len(all_findings) >= 2
  /\ Len(prev_findings) > Len(all_findings)

----------------------------------------------------------------------------
(* Properties of a whole scan *)

\* the Findings scan_file builds for a file before the allowlist and
\* high-only gates: one for each match on a line no exclusion matches
Candidates(file_path) ==
  [k \in 1..CandidateCount(pm, file_path, lines[file_path]) |->
     CandidateFinding(pm, file_path,
                      FileCandidates(pm, file_path, lines[file_path], 1)[k], 0)]

\* C2: with git-history checking on, whatever the mode and the high-only
\* flag, in a scan that collected files every match on a non-excluded line
\* of a file that is gitignored, in the history and still tracked, and that
\* the allowlist does not cover, shows in the final output as a HIGH Finding
\* of that file and line.
C2_TrackedHistoricalFindingsAreHighInOutput ==
  (pc = "done" /\ opts.check_git_history /\ files_to_scan # <<>>) =>
    \A p \in Paths :
      (IsFileGitignored(git, p) /\ IsFileInGitHistory(git, p)
         /\ IsFileStillTracked(git, p)) =>
        \A k \in 1..Len(Candidates(p)) :
          IsAllowlisted(allowlist, Candidates(p)[k]) = "False" =>
            \E i \in 1..Len(findings) :
              /\ findings[i].fingerprint = Candidates(p)[k].fingerprint
              /\ findings[i].severity = HIGH

Triple(f) == <<f.file_path, f.line_number, f.pattern>>

TriplesOf(s) == {Triple(s[i]) : i \in 1..Len(s)}

C4_NoFindingOnExcludedLine ==
  \A i \in 1..Len(findings) : ~ShouldExcludeLine(pm, findings[i].line_content)

\* the arguments _determine_severity_and_risk can get
ClassifierInputs ==
  {"loose", "strict"} \X Paths \X Lines
    \X {PAT_BEARER, PAT_JWT, PAT_PASSWORD_ASSIGN, PAT_STRICT_PASSWORD, PAT_STRICT_AUTH,
        PAT_STRICT_PASS, PAT_CLIENT_SECRET, PAT_OVERRIDE_PASSWORD, PAT_POSTGRES_URL,
        PAT_MONGODB_URL}

\* the Findings whose severity the classifier gave and nothing changed since
Classified ==
  {f \in Range(pattern_findings) \cup Range(file_findings) :
     f.description # <<"Sensitive config pattern">>}

\* every call of the classifier answers a severity and a risk type
ClassifierTotal ==
  \A x \in ClassifierInputs :
    DetermineSeverityAndRisk(PatternManager(x[1]), x[2], x[3], x[4]) \in Severity \X RiskType

Anonymous(s) == [i \in 1..Len(s) |-> [s[i] EXCEPT !.id = 0]]

\* C6: two scans of the same files, git state, allowlist and options return
\* the same list of Findings.
C6_SameInputsSameFindings ==
  (pc = "done" /\ run > 1 /\ allowlist = prev_allowlist) =>
    Anonymous(findings) = Anonymous(prev_findings)

\* every Finding object the scan holds
Objects ==
  Range(pattern_findings) \cup Range(detect_secrets_findings) \cup Range(git_findings)
    \cup Range(file_findings) \cup Range(all_findings) \cup Range(findings)

EscalationStep ==
  \A f \in Objects : \A g \in Objects' :
    (g.id = f.id /\ run' = run) =>
      /\ Rank(g.severity) >= Rank(f.severity)
      /\ g.severity # f.severity =>
           (g.severity = HIGH /\ g.in_git_history /\ g.is_still_tracked)

EscalatedAreHigh ==
  pc \in {"deep", "combine", "done"} =>
    \A f \in Objects : (f.in_git_history /\ f.is_still_tracked) => f.severity = HIGH

\* C8: no step of a scan lowers the severity of a Finding, the only change of
\* severity is the raise to HIGH of a Finding of a historical, still tracked
\* file, and once the history stage is over every Finding in the history and
\* still tracked is HIGH.
C8_EscalationMonotonic == [][EscalationStep]_vars /\ []EscalatedAreHigh

\* the output holds a Finding the history stage raised to HIGH
C8_Witness ==
  /\ pc = "done"
  /\ \E i \in 1..Len(findings) :
       /\ findings[i].is_still_tracked
       /\ findings[i].severity = HIGH
       /\ STILL_TRACKED_NOTE \in Range(findings[i].description)

----------------------------------------------------------------------------
(* Properties of the allowlist matchers *)

\* C9: with the single entry <file>:<line>:* both matchers answer true for a
\* Finding of that file at that line, whatever its pattern, and false for a
\* Finding of that file at any other line, also one whose number starts with
\* the digits of <line>.
C9_LineGlobCoversExactlyItsLine ==
  \A p \in ProbePaths, n \in GlobLines :
    (allowlist = <<GlobEntry(p, n)>> /\ probe # NoProbe /\ probe.file_path = p) =>
      verdict.result = (IF probe.line_number = n THEN "True" ELSE "False")

\* C10: whatever the entries of the allowlist, globs with regex metacharacters
\* included, the matcher answers true or false, and no scan_file call ends in
\* its except clause.
C10_MatcherAlwaysAnswers ==
  /\ probe # NoProbe => verdict.result \in {"True", "False"}
  /\ aborted = {}

HasHigh(found) == \E i \in 1..Len(found) : found[i].severity = HIGH

\* C11: main() exits with 1 under high-only exactly when the final list
\* holds a HIGH Finding, and without high-only exactly when the final list
\* is not empty; print_report returns TRUE exactly when the final list
\* holds a HIGH Finding.
C11_ExitStatusContract ==
  /\ pc \in {"report", "exited"} => (high_findings_exist <=> HasHigh(findings))
  /\ (pc = "exited" /\ opts.high_only) =>
       exit_code = <<IF HasHigh(findings) THEN 1 ELSE 0>>
  /\ (pc = "exited" /\ ~opts.high_only) =>
       exit_code = <<IF findings = <<>> THEN 0 ELSE 1>>
  /\ pc # "exited" => exit_code = <<>>

C11_Witness ==
  /\ pc = "exited"
  /\ ~opts.high_only
  /\ findings # <<>>
  /\ ~high_findings_exist
  /\ exit_code = <<1>>

----------------------------------------------------------------------------
(* Properties of PatternManager construction *)

\* the patterns of a group that compile, as written or simplified
Compilable(group, retry) ==
  SelectSeq(group.items,
            LAMBDA p : p # NONE /\ (~ReCompile(p).err
                                    \/ (retry /\ ~ReCompile(Simplified(p)).err)))

Labels(compiled) == [i \in 1..Len(compiled) |-> compiled[i].pattern]

\* C12: building the pattern set never fails: whatever the pattern file
\* holds (missing, null or non-compilable entries included), construction
\* completes, and each group is compiled to exactly its compilable patterns.
C12_ConstructionNeverFails ==
  pc = "constructed" =>
    LET groups == LoadPatterns(pattern_file) IN
    /\ ~pattern_manager.raised
    /\ Labels(pattern_manager.compiled_overrides)
         = Compilable(groups.override_patterns, FALSE)
    /\ Labels(pattern_manager.compiled_config_patterns)
         = Compilable(groups.config_patterns, FALSE)
    /\ Labels(pattern_manager.compiled_exclusions)
         = Compilable(groups.exclusion_patterns, FALSE)
    /\ Labels(pattern_manager.compiled_patterns)
         = IF opts.mode = "strict" THEN Compilable(groups.strict_patterns, TRUE)
           ELSE Compilable(groups.loose_patterns, TRUE)
                \o Compilable(groups.additional_patterns, TRUE)

----------------------------------------------------------------------------
(* Properties of a scan that meets a file it cannot read *)

OfFile(s, file_path) == SelectSeq(s, LAMBDA f : f.file_path = file_path)

Unreadable == {p \in Paths : read_error[p] # <<>>}

\* what scan_file and the detector give for a file scanned on its own
AloneInPatternScan(file_path) ==
  IF file_path \in Range(files_to_scan)
  THEN Anonymous(ScanFile(pm, allowlist, opts.high_only, file_path,
                          lines[file_path], 0).findings)
  ELSE <<>>

AloneInDetector(file_path) ==
  IF opts.use_detect_secrets
  THEN Anonymous(RunDetectSecretsScan(pm, allowlist, opts.high_only,
                   SelectSeq(files_to_scan, LAMBDA p : p = file_path),
                   lines, [p \in Paths |-> IsFileGitignored(git, p)], 0))
  ELSE <<>>

\* C13: a file that cannot be read (at open or part-way) is skipped: the
\* scan ends, the file contributes no Finding, and every other file gives
\* the Findings it gives when scanned without the failing file.
C13_UnreadableFileIsSkipped ==
  pc = "done" =>
    /\ \A p \in Unreadable : OfFile(all_findings, p) = <<>>
    /\ \A p \in Paths \ Unreadable :
         /\ Anonymous(OfFile(pattern_findings, p)) = AloneInPatternScan(p)
         /\ Anonymous(OfFile(detect_secrets_findings, p)) = AloneInDetector(p)

----------------------------------------------------------------------------
(* Properties of scan_file and the Classifier *)

\* the Findings scan_file has emitted: those of the pattern scan and those
\* of the historical files
EmittedByScanFile ==
  Range(pattern_findings) \cup Range(file_findings)
  \cup {f \in Range(git_findings) : f.description # <<"Found in Git history blob">>}

\* C14: a Finding emitted by scan_file whose matchedPattern is an override
\* pattern has severity HIGH, whatever the file and the line.
C14_OverridePatternForcesHigh ==
  \A f \in EmittedByScanFile :
    f.pattern \in Range(pm.compiled_overrides) => f.severity = HIGH

C14_Witness ==
  \E f \in Range(pattern_findings) :
    /\ f.pattern \in Range(pm.compiled_overrides)
    /\ ~IsConfigFile(pm, f.file_path)
    /\ SeverityWithoutOverride(pm, f.file_path, f.line_content,
                               LINE_FACTS[f.line_content]) = LOW
    /\ f.severity = HIGH

\* the call in hand is a call of the Classifier
Classifying == probe.by = "_determine_severity_and_risk"

\* C15: a line that holds a logging-call token and a secret token (compared
\* in lower case) is classified HIGH with risk type DATA_EXPOSURE_LOGS, for
\* every file path and matched pattern.
C15_LoggedSecretIsHighLogExposure ==
  (Classifying /\ LINE_FACTS[probe.line_content].logging
               /\ LINE_FACTS[probe.line_content].secret) =>
    verdict.result = <<HIGH, "DATA_EXPOSURE_LOGS">>

C15_Witness ==
  /\ Classifying
  /\ probe.line_content = "L_LOG_QUOTED"
  /\ probe.file_path = PATH_A
  /\ Search(RE_QUOTED_VALUE, probe.line_content)
  /\ verdict.result = <<HIGH, "DATA_EXPOSURE_LOGS">>

\* some override matcher fires on the line of the call in hand
OverrideFires ==
  \E k \in 1..Len(pm.compiled_overrides) :
    Search(pm.compiled_overrides[k], probe.line_content)

\* a rule other than the configuration-file rule makes the line HIGH
HighByAnotherRule ==
  \/ OverrideFires
  \/ LINE_FACTS[probe.line_content].logging /\ LINE_FACTS[probe.line_content].secret
  \/ /\ ~Search(RE_QUOTED_VALUE, probe.line_content)
     /\ \/ LINE_FACTS[probe.line_content].db /\ LINE_FACTS[probe.line_content].password
        \/ Search(RE_PASSWORD_EQ, probe.line_content)
             /\ LINE_FACTS[probe.line_content].special
        \/ LINE_FACTS[probe.line_content].client

\* C16: in a configuration file a line with '=' and a sensitive term (in any
\* case) is HIGH whatever the matched pattern; in a file that is not a
\* configuration file a line is HIGH only by one of the other rules.
C16_ConfigAssignmentIsHigh ==
  Classifying =>
    /\ (IsConfigFile(pm, probe.file_path)
          /\ LINE_FACTS[probe.line_content].equals
          /\ LINE_FACTS[probe.line_content].sensitive) => verdict.result[1] = HIGH
    /\ (~IsConfigFile(pm, probe.file_path) /\ verdict.result[1] = HIGH)
          => HighByAnotherRule

C16_Witness ==
  /\ Classifying
  /\ probe.file_path = PATH_C
  /\ probe.line_content = "L_KEY"
  /\ probe.matching_pattern = PAT_BEARER
  /\ ~HighByAnotherRule
  /\ verdict.result[1] = HIGH

\* the matches scan_file meets in the lines of a file, each with its group
FiringIn(file_path) ==
  {c \in [line_number : 1..Len(lines[file_path]), line : Lines,
           pattern : ALL_PATTERNS, group : {"override", "regular", "config"}] :
     /\ c.line = lines[file_path][c.line_number]
     /\ ~ShouldExcludeLine(pm, c.line)
     /\ Search(c.pattern, c.line)
     /\ c.pattern \in Range(CASE c.group = "override" -> pm.compiled_overrides
                              [] c.group = "regular" -> pm.compiled_patterns
                              [] OTHER -> IF IsConfigFile(pm, file_path)
                                          THEN pm.compiled_config_patterns ELSE <<>>)}

\* the match gets through the allowlist gate and the high-only gate
PassesGates(file_path, c) ==
  /\ IsAllowlisted(allowlist, CandidateFinding(pm, file_path, c, 0)) = "False"
  /\ opts.high_only => CandidateFinding(pm, file_path, c, 0).severity = HIGH

NoTwoWithSameFullFingerprint ==
  \A i, j \in 1..Len(pattern_findings) :
    i # j => pattern_findings[i].full_fingerprint # pattern_findings[j].full_fingerprint

EachFiringPatternHasItsFinding ==
  pc = "done" =>
    \A file_path \in Range(files_to_scan) \ aborted :
      \A c \in FiringIn(file_path) :
        PassesGates(file_path, c) =>
          \E f \in Range(pattern_findings) :
            /\ f.file_path = file_path
            /\ f.line_number = c.line_number
            /\ f.pattern = c.pattern

\* C17: the Findings scan_file returns for a file never include two with
\* the same fullFingerprint, and include one for each distinct pattern that
\* fires on a line and passes the allowlist gate and the high-only gate.
C17_OneFindingPerFiringPattern ==
  NoTwoWithSameFullFingerprint /\ EachFiringPatternHasItsFinding

----------------------------------------------------------------------------
(* Properties of the Finding objects over a scan *)

\* the fields no step is said to touch, the same in f and g
SameLocationAndPattern(f, g) ==
  /\ g.file_path = f.file_path
  /\ g.line_number = f.line_number
  /\ g.line_content = f.line_content
  /\ g.pattern = f.pattern
  /\ g.risk_type = f.risk_type
  /\ g.fingerprint = f.fingerprint
  /\ g.full_fingerprint = f.full_fingerprint

SameProvenance(f, g) ==
  /\ g.is_gitignored = f.is_gitignored
  /\ g.in_git_history = f.in_git_history
  /\ g.is_still_tracked = f.is_still_tracked

\* the objects that are past the history stage's tagging loop or never go
\* through it
Settled ==
  Range(pattern_findings) \cup Range(detect_secrets_findings) \cup Range(git_findings)
    \cup Range(all_findings) \cup Range(findings)

\* a step changes severity and description only, only in the tagging loop
\* of the history stage, and only of an object the loop has not seen yet
OnlySeverityAndDescriptionStep ==
  \A f \in Objects : \A g \in Objects' :
    (g.id = f.id /\ run' = run) =>
      /\ SameLocationAndPattern(f, g)
      /\ SameProvenance(f, g)
      /\ g # f => (pc = "hist_tag" /\ f \notin Settled)
      /\ pc \in {"done", "report", "exited"} => g = f

\* the same, with the provenance flags among the fields the tagging loop sets
TaggingStep ==
  \A f \in Objects : \A g \in Objects' :
    (g.id = f.id /\ run' = run) =>
      /\ SameLocationAndPattern(f, g)
      /\ g # f =>
           /\ pc = "hist_tag" /\ f \notin Settled
           /\ g.is_gitignored /\ g.in_git_history
           /\ g.is_still_tracked = IsFileStillTracked(git, f.file_path)
      /\ pc \in {"done", "report", "exited"} => g = f

\* C18: after a Finding is created no step changes its filePath, lineNumber,
\* lineContent, matchedPattern, riskType or fingerprints; the only step that
\* changes it is the tagging loop of the history stage, once, which sets the
\* three provenance flags and may change severity and description; nothing
\* changes after deduplication.
C18_FrameWithProvenanceTagging == [][TaggingStep]_vars

\* C18 with the provenance flags kept as constructed: the only fields a
\* later step changes are severity and description.
C18_OnlySeverityAndDescriptionChange == [][OnlySeverityAndDescriptionStep]_vars

\* a Finding the tagging loop has tagged without raising its severity
C18_Witness ==
  \E f \in Range(git_findings) :
    /\ f.description # <<"Found in Git history blob">>
    /\ f.is_gitignored /\ f.in_git_history /\ ~f.is_still_tracked
    /\ f.severity # HIGH

----------------------------------------------------------------------------
(* Properties of the order of the Classifier's rules *)

\* the conditions of the eight rules on the call in hand, in the order
\* override, config-file assignment, logging and secret, quoted value of 16
\* characters or more, database and password, password assignment with a
\* special character, client_id or client_secret, default
RuleConditions ==
  << OverrideFires,
     /\ IsConfigFile(pm, probe.file_path)
     /\ LINE_FACTS[probe.line_content].equals
     /\ LINE_FACTS[probe.line_content].sensitive,
     LINE_FACTS[probe.line_content].logging /\ LINE_FACTS[probe.line_content].secret,
     Search(RE_QUOTED_VALUE, probe.line_content),
     LINE_FACTS[probe.line_content].db /\ LINE_FACTS[probe.line_content].password,
     Search(RE_PASSWORD_EQ, probe.line_content) /\ LINE_FACTS[probe.line_content].special,
     LINE_FACTS[probe.line_content].client,
     TRUE >>

RULE_SEVERITIES == <<HIGH, HIGH, HIGH, MEDIUM, HIGH, HIGH, HIGH, LOW>>

FirstHit ==
  CHOOSE n \in 1..Len(RULE_SEVERITIES) :
    RuleConditions[n] /\ \A m \in 1..(n - 1) : ~RuleConditions[m]

\* C19: the severity the Classifier gives is that of the first rule, in the
\* order override, config-file assignment, logging and secret, MEDIUM shape,
\* database and password, password with special character, client_id or
\* client_secret, default LOW, whose condition holds; a line of the MEDIUM
\* shape that meets none of the three rules before it is MEDIUM even when it
\* meets a later HIGH rule.
C19_FirstRuleThatHoldsDecides ==
  Classifying => verdict.result[1] = RULE_SEVERITIES[FirstHit]

\* a line of the MEDIUM shape that also holds a database term and a password
\* term
C19_Witness ==
  /\ Classifying
  /\ FirstHit = 4
  /\ RuleConditions[5]
  /\ verdict.result[1] = MEDIUM

\* the first rule after the override rule whose condition holds
FirstLaterHit ==
  CHOOSE n \in 2..Len(RULE_SEVERITIES) :
    RuleConditions[n] /\ \A m \in 2..(n - 1) : ~RuleConditions[m]

\* C20: the override rule applies only to a call whose matching_pattern is
\* an override pattern and on whose line an override matcher fires; for any
\* other matching_pattern the later rules decide the severity, even when an
\* override matcher fires on the line.
C20_OverrideRuleNeedsOverridePattern ==
  Classifying =>
    /\ (probe.matching_pattern \in Range(pm.compiled_overrides) /\ OverrideFires)
         => verdict.result[1] = HIGH
    /\ probe.matching_pattern \notin Range(pm.compiled_overrides)
         => verdict.result[1] = RULE_SEVERITIES[FirstLaterHit]

\* C21: a line that holds client_id or client_secret (in any case) is
\* classified HIGH, for every file path and matched pattern.
C21_ClientCredentialIsHigh ==
  (Classifying /\ LINE_FACTS[probe.line_content].client) => verdict.result[1] = HIGH

----------------------------------------------------------------------------
(* Properties of the risk type *)

\* the line has a '[' with a ']' somewhere after it
Bracketed(raw) ==
  \E i, j \in 1..Len(raw) : i < j /\ raw[i] = "[" /\ raw[j] = "]"

\* the decision list over the lower-cased line, with the given bracket test
RiskDecision(line, bracket_test) ==
  IF AnyIn(LOGGING_TERMS, Lower(LINE_TEXT[line])) THEN "DATA_EXPOSURE_LOGS"
  ELSE IF AnyIn(RESPONSE_TERMS, Lower(LINE_TEXT[line])) THEN "DATA_EXPOSURE_RESPONSE"
  ELSE IF bracket_test THEN "SENSITIVE_CONFIG"
  ELSE "HARDCODED_SECRET"

\* C22: the risk type the Classifier returns is DATA_EXPOSURE_LOGS for a
\* line with a logging token (in lower case), otherwise
\* DATA_EXPOSURE_RESPONSE for a line with a response or return token,
\* otherwise SENSITIVE_CONFIG for a line that holds both '[' and ']', in any
\* position, otherwise HARDCODED_SECRET, whichever severity rule fires.
C22_RiskTypeDecisionList ==
  Classifying =>
    verdict.result[2] =
      RiskDecision(probe.line_content,
                   InStr("[", LINE_TEXT[probe.line_content])
                     /\ InStr("]", LINE_TEXT[probe.line_content]))

\* C22 with the bracket test read as a bracketed section header, a '['
\* closed by a later ']'.
C22_RiskTypeWithBracketedHeader ==
  Classifying =>
    verdict.result[2] =
      RiskDecision(probe.line_content, Bracketed(LINE_TEXT[probe.line_content]))

\* a line with a response token and brackets, whose severity is LOW
C22_Witness ==
  /\ Classifying
  /\ probe.line_content = "L_RESPONSE_INDEX"
  /\ Bracketed(LINE_TEXT[probe.line_content])
  /\ verdict.result = <<LOW, "DATA_EXPOSURE_RESPONSE">>

----------------------------------------------------------------------------
(* Properties of the way the streams classify *)

\* the path of the object a git-blob Finding was found in
BlobPathOf(f) == SubSeq(f.file_path, Len(GIT_BLOB_PREFIX) + 1, Len(f.file_path))

\* f has the severity and the risk type the Classifier gives for file_path
ClassifiedAs(f, file_path) ==
  <<f.severity, f.risk_type>>
    = DetermineSeverityAndRisk(pm, file_path, f.line_content, f.pattern)

ScanFileClassifies ==
  \A f \in Range(pattern_findings) \cup Range(file_findings) :
    ClassifiedAs(f, f.file_path)

DetectorClassifies ==
  \A f \in Range(detect_secrets_findings) : ClassifiedAs(f, f.file_path)

BlobScanClassifies ==
  \A f \in Range(git_findings) :
    f.description = <<"Found in Git history blob">> => ClassifiedAs(f, BlobPathOf(f))

\* C23: every Finding, of every pattern group of scan_file and of the
\* git-blob and detector streams, has before any escalation the severity and
\* the risk type _determine_severity_and_risk gives for its file path, line
\* and pattern.
C23_EveryCandidateIsClassified ==
  ScanFileClassifies /\ DetectorClassifies /\ BlobScanClassifies

----------------------------------------------------------------------------
(* Properties of the merge of the three streams *)

\* the positions in all_findings of the Findings with the fingerprint of g
Colliding(g) ==
  {k \in 1..Len(all_findings) : all_findings[k].fingerprint = g.fingerprint}

\* the first position among those of the highest severity
FirstOfHighest(g) ==
  CHOOSE k \in Colliding(g) :
    /\ \A m \in Colliding(g) :
         Rank(all_findings[m].severity) <= Rank(all_findings[k].severity)
    /\ \A m \in Colliding(g) :
         m < k => Rank(all_findings[m].severity) < Rank(all_findings[k].severity)

\* C24: the streams are merged in the order pattern scan, detector, git
\* history; of the Findings with one fingerprint the survivor is the first
\* in that order among those of the highest severity, so a later Finding
\* replaces an earlier one only when its severity is strictly higher.
C24_MergeOrderAndTies ==
  pc = "done" =>
    /\ all_findings = pattern_findings \o detect_secrets_findings \o git_findings
    /\ \A g \in Range(findings) : g = all_findings[FirstOfHighest(g)]

\* a Finding of the pattern scan and one of the detector with the same
\* fingerprint and severity: the one of the pattern scan is in the output
C24_Witness ==
  /\ pc = "done"
  /\ \E f \in Range(pattern_findings) : \E d \in Range(detect_secrets_findings) :
       /\ d.fingerprint = f.fingerprint
       /\ d.severity = f.severity
       /\ f \in Range(findings)
       /\ d \notin Range(findings)

----------------------------------------------------------------------------
(* Properties of high-only mode *)

\* C25: under high-only every Finding of the final output is HIGH, so
\* print_report returns TRUE exactly when the output is not empty, and in
\* both modes main() exits with 1 exactly when the output is not empty.
C25_HighOnlyOutputIsAllHigh ==
  /\ (opts.high_only /\ pc \in {"done", "report", "exited"}) =>
       \A i \in 1..Len(findings) : findings[i].severity = HIGH
  /\ (opts.high_only /\ pc \in {"report", "exited"}) =>
       (high_findings_exist <=> findings # <<>>)
  /\ pc = "exited" => (exit_code = <<1>> <=> findings # <<>>)

\* a high-only scan whose output is empty although a pattern fires on a
\* line that is neither excluded nor allowlisted
C25_Witness ==
  /\ pc = "exited"
  /\ opts.high_only
  /\ findings = <<>>
  /\ exit_code = <<0>>
  /\ \E file_path \in Range(files_to_scan) \ aborted :
       \E c \in FiringIn(file_path) :
         IsAllowlisted(allowlist, CandidateFinding(pm, file_path, c, 0)) = "False"

----------------------------------------------------------------------------
(* Properties of the git-history stage *)

\* the historical files the history stage scans to the end
HistoricalScanned ==
  {p \in HistoricalFiles(git) : ShouldScanFile(pm, p)} \ aborted

\* every match of a historical file that passes the gates has a Finding at
\* its line in the output
HistoricalMatchesReported ==
  \A file_path \in HistoricalScanned :
    \A c \in FiringIn(file_path) :
      PassesGates(file_path, c) =>
        \E g \in Range(findings) :
          g.fingerprint = Fingerprint(file_path, c.line_number)

\* C27: with check-git-history a match on a line of a historical gitignored
\* file that is neither excluded nor allowlisted has a Finding in the output
\* of scan(), however many files the collection step found, none included.
C27_HistoryStageAlwaysRuns ==
  (pc = "done" /\ opts.check_git_history) => HistoricalMatchesReported

\* the Findings of the output whose fingerprint both the pattern scan and the
\* scan of the historical files produced
InBothStreams ==
  {g \in Range(findings) :
     /\ \E f \in Range(pattern_findings) : f.fingerprint = g.fingerprint
     /\ \E h \in Range(git_findings) :
          h.fingerprint = g.fingerprint /\ h.in_git_history}

SurvivorIsHistorical == \A g \in InBothStreams : g.in_git_history

SurvivorOfTrackedFileIsTracked ==
  \A g \in InBothStreams : IsFileStillTracked(git, g.file_path) => g.is_still_tracked

FetchedBlobFindings ==
  {BlobFinding(c, 0) :
     c \in UNION {Range(BlobCandidates(pm, b, 1, b.content)) :
                    b \in {x \in BlobPaths : x.hash \notin fetch_error}}}

\* C28: in a deep scan a git object that cannot be fetched costs only its
\* own Findings: every match in an object that was fetched, and that the
\* allowlist does not cover, has a Finding at its place in the final output.
C28_FailedBlobDegradesOnlyItself ==
  (pc = "done" /\ opts.deep_scan /\ files_to_scan # <<>>) =>
    \A f \in FetchedBlobFindings :
      IsAllowlisted(allowlist, f) = "False" =>
        \E g \in Range(findings) : g.fingerprint = f.fingerprint

----------------------------------------------------------------------------
(* Properties of the gating signal under a growing allowlist *)

FingerprintsOfOutput(found) == {found[i].fingerprint : i \in 1..Len(found)}

----------------------------------------------------------------------------
(* Properties of the exclusion filter *)

\* the line begins, after blanks, with a comment marker
IsCommentLine(raw) ==
  \E k \in 1..Len(raw) :
    /\ \A m \in 1..(k - 1) : raw[m] = " "
    /\ \/ raw[k] = "#"
       \/ k < Len(raw) /\ raw[k] = "/" /\ raw[k + 1] = "/"

\* a connection-string pattern of the loose group fires on the line
HasCredentialedUrl(line) ==
  Search(PAT_POSTGRES_URL, line) \/ Search(PAT_MONGODB_URL, line)

\* C30: in loose mode with the default patterns, scan_file emits at least
\* one Finding for a line that is not a comment and carries a credentialed
\* connection URL.
C30_CredentialedUrlIsReported ==
  (/\ probe.by = "scan_file"
   /\ opts.mode = "loose" /\ ~opts.high_only
   /\ HasCredentialedUrl(probe.content[1])
   /\ ~IsCommentLine(LINE_TEXT[probe.content[1]]))
    => verdict.result.findings # <<>>

====
